---- MODULE Spec2Model ----
(***************************************************************************)
(* A model of the Remus RDMA runtime (sss-lehigh/remus-tutorial-2025):     *)
(* the ring slot allocator, the ring buffer allocator, the compute thread  *)
(* operations built on them, the sense-reversing barrier and the           *)
(* distributed bump allocator.  Every subsystem has a specification of its *)
(* own over the module's variables; the variables of the other subsystems  *)
(* stay at their initial values.                                           *)
(***************************************************************************)
EXTENDS Integers, Sequences, FiniteSets, TLC

VARIABLES
  fatal,                \* "none", or the REMUS_ASSERT / REMUS_FATAL that ended the process
  \* ---- ring_counter_t (ring.h)
  counter_start,        \* index of the oldest slot that is not AVAILABLE
  counter_end,          \* index of the next slot to hand out
  counter_assignments,  \* slot -> State
  rc_ret,               \* history: what the last acquire returned (NullOpt or an index)
  rc_order,             \* history: acquired slots, oldest first, trimmed of its released prefix
  rc_freed,             \* history: how many slots the last release made AVAILABLE
  \* ---- ring_buf_t (ring.h)
  ring_buf_start,
  ring_buf_end,
  ring_buf_allocations, \* address -> [next_available_addr, in_use]
  rb_ret,               \* history: what the last acquire returned (NullPtr or an address)
  rb_held,              \* history: the chunks callers hold, as [buf, size], oldest first
  \* ---- ControlBlock barrier word and the threads in arrive_control_barrier
  barrier_,             \* ControlBlock::barrier_ of segment 0 of memory node 0
  bar_pc,               \* per thread: position in arrive_control_barrier
  bar_was,              \* per thread: the local `was` of the call in progress
  bar_calls,            \* per thread: number of calls started
  bar_done,             \* per thread: number of calls returned
  bar_ret,              \* per thread: value returned by the last call
  bar_arrived,          \* history: per wave, how many fetch-and-adds took place
  \* ---- memory nodes
  mem,                  \* memory node -> the bytes of one 8-byte word of its segment
  control_flag_,        \* memory node -> ControlBlock::control_flag_ of its segment 0
  \* ---- one ComputeThread object and the lane counters of its compute node
  op_counter_start,
  op_counter_end,
  op_counter_assignments,
  seq_op_counter_start, \* of coroutine slot 0
  seq_op_counter_end,
  seq_op_counter_assignments,
  seq_send_wrs,         \* of coroutine slot 0: seq_idx -> the group
  staging_buf_start,
  staging_buf_end,
  staging_buf_allocations_,
  cached_buf_start,
  cached_buf_end,
  cached_buf_allocations_,
  cached_buf_manager_,  \* the set of chunks held through local_allocate
  lane_op_counters_,    \* ComputeNode::lane_op_counters_: lane -> in-flight count
  ct_state,             \* "live" or "dropped"
  ct_last,              \* history: the last operation of the thread and what it returned
  wr_pending,           \* history: the thread's last Write that nothing has overwritten
  \* ---- the bump allocator: segments, compute nodes' hints, threads' allocators
  allocated_,           \* segment -> ControlBlock::allocated_
  header_size_,         \* block address -> header_t::size_ as written
  hint_,                \* compute node -> segment -> seg_t::hint_
  alloc_pol,            \* the --alloc-pol of the cluster, "unset" before the first thread
  policy_,              \* per thread: MnAllocPolicy::policy_
  last_mn_,             \* per thread: MnAllocPolicy::last_mn_
  last_seg_,            \* per thread: MnAllocPolicy::last_seg_
  freelists_,           \* per thread: size class -> blocks, the last pushed last
  free_blocks_,         \* per thread: the <<size, address>> of the big free blocks
  al_pc,                \* per thread: position in allocate
  al_size,              \* per thread: size of the allocate in progress
  al_seg,               \* per thread: <<mn_id, seg_id>> of the current iteration
  al_offset,            \* per thread: what the fetch-and-add returned
  al_entry,             \* history, per thread: allocated_ when the call in progress began
  al_calls,             \* history: allocate calls started
  al_live,              \* history: <<block, thread>> of the blocks the threads hold
  al_last,              \* history: the last allocate or deallocate that returned
  \* ---- the allocator saturation scenario: one thread, one memory node
  sat_allocated_,       \* seg_id -> ControlBlock::allocated_
  sat_hint_,            \* seg_id -> seg_t::hint_ of the thread's compute node
  sat_policy_,          \* MnAllocPolicy::policy_, "unborn" before the thread is constructed
  sat_last_mn_,         \* MnAllocPolicy::last_mn_
  sat_last_seg_,        \* MnAllocPolicy::last_seg_
  sat_pc,               \* position of the thread in allocate
  sat_size,             \* size of the allocate in progress
  sat_seg,              \* <<mn_id, seg_id>> of the current iteration
  sat_offset,           \* what the fetch-and-add returned
  sat_bytes,            \* history: the sizeof(T) * n of the scenario's allocate calls
  sat_given,            \* history: allocate calls that returned a block
  \* ---- shutdown of a cluster: its compute threads and its memory nodes
  sd_args,              \* the command-line arguments of the cluster
  sd_control_flag_,     \* memory node -> ControlBlock::control_flag_ of its segment 0
  sd_thread,            \* <<node id, thread id>> -> "live" or "dropped"
  sd_proc,              \* node id -> "up", or what ended the process
  sd_mn,                \* memory node -> "up", "waiting" (in ~MemoryNode) or "down"
  sd_last,              \* history: the last ~ComputeThread and its fetch-and-adds
  \* ---- one MemoryNode's listener thread and the compute nodes that connect to it
  ls_args,              \* the command-line arguments of the cluster, NODE_ID the node's own
  remaining_conns_,     \* MemoryNode::remaining_conns_
  conns_,               \* MemoryNode::conns_, as the machine ids of the connections
  ls_state,             \* "listening", or "returned" when handle_connections has returned
  ls_events,            \* the events of listen_channel_ not yet read, oldest first
  ls_connects,          \* compute node -> rdma_connect calls made in connect_remote
  ls_strays,            \* history: connect requests that carry the node's own id
  ls_last,              \* history: the last event handled and the counts before it
  \* ---- ComputeNode::register_thread and the threads that call it
  threads_,             \* ComputeNode::threads_
  reg_pc,               \* per caller: "idle", "fetched" (threads_++ done) or "returned"
  reg_id,               \* per caller: the local id of its call
  reg_res,              \* per caller: the address returned, NullPtr before
  \* ---- one lane of a compute node and the operations its threads have in flight
  ln_op_counters,       \* ComputeNode::lane_op_counters_, of the one lane
  ln_last,              \* history: the last Lane constructed or destructed
  \* ---- the asynchronous single-shot operations of one thread
  as_ops,               \* per coroutine: how far its ReadAsync is, and what it holds
  as_last,              \* history: the last ReadAsync started and what was in flight
  op_counters_,         \* ComputeThread::op_counters_: the completion counters
  send_queue,           \* the work requests posted on the connection, not yet executed
  completion_queue,     \* the completions of the connection, not yet polled
  staging_mem,          \* the bytes of the thread's staging ring
  as_calls,             \* how many ReadAsync calls were made
  as_poll,              \* history: the last PollAsync call, its counter before and after
  \* ---- the root pointer, published by the first compute node
  root_,                \* ControlBlock::root_ of memory node 0, segment 0
  rt_main,              \* per compute node: how far its main thread is
  rt_root,              \* per thread: what its get_root() returned, NullPtr before
  \* ---- another compute thread of the same compute node
  peer_lane,            \* the lane whose slot it holds in a one-sided operation, or NullOpt
  \* ---- rdma_ptr<T>
  ptr_last,             \* history: the last operation on a fat pointer and its result
  \* ---- one thread that allocates and deallocates blocks of every size class
  fl_allocated_,        \* ControlBlock::allocated_ of the one segment the thread's policy names
  fl_header_size_,      \* header_t::size_ of the blocks carved, by block address
  fl_freelists_,        \* BumpAllocator::freelists_ of the thread
  fl_free_blocks_,      \* BumpAllocator::free_blocks_ of the thread
  fl_live,              \* the addresses allocate returned and deallocate did not get yet
  fl_calls,             \* how many allocate calls were made
  fl_last,             \* history: the last allocate or deallocate, and what it returned
  \* ---- MnAllocPolicy of one thread, for any memory-node range
  pol_args,             \* the command-line arguments of the cluster
  pol_thread,           \* the thread, as <<NODE_ID, thread id>>
  pol_policy_,          \* MnAllocPolicy::policy_, "unborn" before the thread is constructed
  pol_last_mn_,         \* MnAllocPolicy::last_mn_
  pol_last_seg_,        \* MnAllocPolicy::last_seg_
  pol_ret,              \* what the last get_mn_seg returned, <<>> before
  pol_calls,           \* how many get_mn_seg calls were made
  \* ---- the lock_ words of two nodes of a LazyListSet and the threads that lock them
  lock_,                \* Node::lock_ of each node
  lk_pc,                \* per thread: where it is in acquire, or that it holds a lock
  lk_node,              \* per thread: the node it locks or holds, none when idle
  lk_own,               \* per thread: its own compare-and-swap changed lock_ from 0 to 1
  lk_seen,             \* per thread: what the last lock_.load() of its spin loop returned
  \* ---- a LockFreeList and the threads that insert into it and remove from it
  lf_head,              \* LockFreeList::head
  lf_key,               \* Node::key, by node
  lf_next,              \* Node::next, by node
  lf_nodes,             \* how many nodes were carved from the segment
  lf_free,              \* per thread: the nodes it deleted, which its next New() returns
  lf_pc,                \* per thread: idle, load, find or cas
  lf_loc,               \* per thread: the locals of its insert or remove
  lf_present,           \* history: keys whose insert returned true, with no remove returning true since
  lf_ops,               \* how many insert and remove calls were made
  lf_last,             \* history: the last call that returned, and what it returned
  \* ---- the perftest driver: the worker threads of the compute nodes
  pf_exp_name,          \* --exp-name, unborn before the program starts
  pf_pc                \* per thread: where it is in the worker lambda

barVars == <<barrier_, bar_pc, bar_was, bar_calls, bar_done, bar_ret, bar_arrived>>
memVars == <<mem, control_flag_>>
ctVars == <<op_counter_start, op_counter_end, op_counter_assignments,
            seq_op_counter_start, seq_op_counter_end, seq_op_counter_assignments,
            seq_send_wrs, staging_buf_start, staging_buf_end, staging_buf_allocations_,
            cached_buf_start, cached_buf_end, cached_buf_allocations_,
            cached_buf_manager_, lane_op_counters_, ct_state, ct_last, wr_pending>>
allocVars == <<allocated_, header_size_, hint_, alloc_pol, policy_, last_mn_, last_seg_,
               freelists_, free_blocks_, al_pc, al_size, al_seg, al_offset, al_entry,
               al_calls, al_live, al_last>>
rcVars == <<counter_start, counter_end, counter_assignments, rc_ret, rc_order, rc_freed>>
rbVars == <<ring_buf_start, ring_buf_end, ring_buf_allocations, rb_ret, rb_held>>
satVars == <<sat_allocated_, sat_hint_, sat_policy_, sat_last_mn_, sat_last_seg_, sat_pc,
             sat_size, sat_seg, sat_offset, sat_bytes, sat_given>>
sdVars == <<sd_args, sd_control_flag_, sd_thread, sd_proc, sd_mn, sd_last>>
lsVars == <<ls_args, remaining_conns_, conns_, ls_state, ls_events, ls_connects, ls_strays,
            ls_last>>
regVars == <<threads_, reg_pc, reg_id, reg_res>>
lnVars == <<ln_op_counters, ln_last>>
asVars == <<as_ops, as_last, op_counters_, send_queue, completion_queue, staging_mem,
            as_calls, as_poll>>
rtVars == <<root_, rt_main, rt_root>>
peerVars == <<peer_lane>>
ptrVars == <<ptr_last>>
flVars == <<fl_allocated_, fl_header_size_, fl_freelists_, fl_free_blocks_, fl_live, fl_calls, fl_last>>
polVars == <<pol_args, pol_thread, pol_policy_, pol_last_mn_, pol_last_seg_, pol_ret, pol_calls>>
lkVars == <<lock_, lk_pc, lk_node, lk_own, lk_seen>>
lfVars == <<lf_head, lf_key, lf_next, lf_nodes, lf_free, lf_pc, lf_loc, lf_present, lf_ops, lf_last>>
pfVars == <<pf_exp_name, pf_pc>>
-----------------------------------------------------------------------------
(* Common helpers *)

NullOpt == -1
NullPtr == 0

Range(f) == {f[x] : x \in DOMAIN f}

Max(a, b) == IF a >= b THEN a ELSE b

\* std::unordered_map: m[k] = v
MapPut(m, k, v) == [x \in (DOMAIN m) \cup {k} |-> IF x = k THEN v ELSE m[x]]

\* std::unordered_map: m.erase(k)
MapErase(m, k) == [x \in (DOMAIN m) \ {k} |-> m[x]]

EmptyMap == [x \in {} |-> 0]

-----------------------------------------------------------------------------
(* ring_counter_t: the ring slot allocator *)

\* CN_OPS_PER_THREAD of the modelled configuration
counter_num == 5

Slots == 0 .. (counter_num - 1)

State == {"AVAILABLE", "IN_USE", "TO_BE_FREED"}

\* ring_counter_t::acquire: [ret, counter_end, counter_assignments] after the call
RingCounterAcquire(c_end, assignments, num) ==
  IF assignments[c_end] = "AVAILABLE"
  THEN [ret |-> c_end,
        counter_end |-> (c_end + 1) % num,
        counter_assignments |-> [assignments EXCEPT ![c_end] = "IN_USE"]]
  ELSE [ret |-> NullOpt,
        counter_end |-> c_end,
        counter_assignments |-> assignments]

\* the while loop of ring_counter_t::release
RECURSIVE RingCounterWalk(_, _, _)
RingCounterWalk(c_start, assignments, num) ==
  IF assignments[c_start] = "TO_BE_FREED"
  THEN RingCounterWalk((c_start + 1) % num,
                       [assignments EXCEPT ![c_start] = "AVAILABLE"], num)
  ELSE [counter_start |-> c_start, counter_assignments |-> assignments]

\* a release that frees at most one slot (an `if` where the code has a `while`)
RingCounterReleaseOneStep(idx, c_start, assignments, num) ==
  LET marked == [assignments EXCEPT ![idx] = "TO_BE_FREED"]
  IN IF marked[c_start] = "TO_BE_FREED"
     THEN [counter_start |-> (c_start + 1) % num,
           counter_assignments |-> [marked EXCEPT ![c_start] = "AVAILABLE"]]
     ELSE [counter_start |-> c_start, counter_assignments |-> marked]

\* a release that hands the slot back at once, wherever it is in the run
RingCounterReleaseInPlace(idx, c_start, assignments, num) ==
  [counter_start |-> IF idx = c_start THEN (c_start + 1) % num ELSE c_start,
   counter_assignments |-> [assignments EXCEPT ![idx] = "AVAILABLE"]]

\* ring_counter_t::release, past its assertion: [counter_start, counter_assignments]
RingCounterRelease(idx, c_start, assignments, num) ==
  RingCounterWalk(c_start, [assignments EXCEPT ![idx] = "TO_BE_FREED"], num)

\* history: drop the released prefix of the acquisition order
RECURSIVE TrimReleased(_)
TrimReleased(order) ==
  IF order # <<>> /\ order[1].released THEN TrimReleased(Tail(order)) ELSE order

MarkReleased(order, idx) ==
  [k \in DOMAIN order |->
     IF order[k].idx = idx THEN [order[k] EXCEPT !.released = TRUE] ELSE order[k]]

rc_Init ==
  /\ counter_start = 0
  /\ counter_end = 0
  /\ counter_assignments = [i \in Slots |-> "AVAILABLE"]
  /\ rc_ret = NullOpt
  /\ rc_order = <<>>
  /\ rc_freed = 0

\* a caller asks for a slot: the constructor of op_counter_t (and of seq_idx_t), which
\* ends the process when the ring has no slot to give
rc_acquire ==
  /\ fatal = "none"
  /\ LET r == RingCounterAcquire(counter_end, counter_assignments, counter_num)
     IN /\ counter_end' = r.counter_end
        /\ counter_assignments' = r.counter_assignments
        /\ rc_ret' = r.ret
        /\ rc_order' = IF r.ret = NullOpt THEN rc_order
                       ELSE Append(rc_order, [idx |-> r.ret, released |-> FALSE])
        /\ fatal' = IF r.ret = NullOpt THEN "op_counter is not available" ELSE "none"
  /\ UNCHANGED <<counter_start, rc_freed>>

\* a caller gives slot idx back; REMUS_ASSERT ends the process on a slot not IN_USE
rc_release ==
  /\ fatal = "none"
  /\ \E idx \in Slots :
       IF counter_assignments[idx] # "IN_USE"
       THEN /\ fatal' = "ring_counter double free is not allowed"
            /\ UNCHANGED rcVars
       ELSE LET r == RingCounterRelease(idx, counter_start, counter_assignments,
                                        counter_num)
            IN /\ counter_start' = r.counter_start
               /\ counter_assignments' = r.counter_assignments
               /\ rc_order' = TrimReleased(MarkReleased(rc_order, idx))
               /\ rc_freed' = Cardinality({i \in Slots :
                                  /\ counter_assignments[i] # "AVAILABLE"
                                  /\ r.counter_assignments[i] = "AVAILABLE"})
               /\ UNCHANGED <<counter_end, rc_ret, fatal>>

-----------------------------------------------------------------------------
(* ring_buf_t: the ring buffer allocator *)

\* log2 of the ring's byte size (half of 1 << CN_THREAD_BUFSZ)
RingBits == 3

ring_buf_size == 2 ^ RingBits

\* The ring's base address: the slice of a thread is cut from a segment aligned
\* on its own size, so the base is aligned on ring_buf_size
ring_buf == 2 * ring_buf_size

\* how many chunks callers hold at once, at most
MaxHeld == 3

\* the (size, align) pairs callers ask for, (sizeof(T), alignof(T)): a quarter of
\* the ring, half of it, and all of it
RbRequests ==
  {<<ring_buf_size \div 4, ring_buf_size \div 4>>,
   <<ring_buf_size \div 2, ring_buf_size \div 2>>,
   <<ring_buf_size, 8>>}

RbAddrs == ring_buf .. (ring_buf + ring_buf_size)

\* ring_buf_t::nextalign, align a power of two
nextalign(address, align) == ((address + (align - 1)) \div align) * align

\* ring_buf_t::keep_align: [ring_buf_end, ring_buf_allocations] after the call
keep_align(rb_end, allocations, align) ==
  LET aligned == nextalign(rb_end, align)
  IN IF aligned # rb_end
     THEN [ring_buf_end |-> aligned,
           ring_buf_allocations |->
             MapPut(allocations, rb_end,
                    [next_available_addr |-> aligned, in_use |-> FALSE])]
     ELSE [ring_buf_end |-> rb_end, ring_buf_allocations |-> allocations]

\* the carve of cases 3 and 4 of ring_buf_t::acquire ("Correct for wrap")
RbCarveWrap(base, rb_end, rb_start, rb_size, allocations, size, align) ==
  LET k == keep_align(rb_end, allocations, align)
      buf == k.ring_buf_end
      e == buf + size
  IN [ret |-> buf,
      ring_buf_end |-> e,
      ring_buf_start |-> rb_start,
      ring_buf_allocations |->
        MapPut(k.ring_buf_allocations, buf,
               [next_available_addr |-> IF e = base + rb_size THEN base ELSE e,
                in_use |-> TRUE])]

\* ring_buf_t::acquire: [ret, ring_buf_end, ring_buf_start, ring_buf_allocations]
RingBufAcquire(base, rb_end, rb_start, rb_size, allocations, size, align) ==
  LET unchanged == [ret |-> NullPtr, ring_buf_end |-> rb_end,
                    ring_buf_start |-> rb_start,
                    ring_buf_allocations |-> allocations]
      real_size == size + nextalign(rb_end, align) - rb_end
  IN IF size + nextalign(base, align) > base + rb_size
     THEN unchanged
     ELSE IF rb_start <= rb_end /\ rb_end + real_size <= base + rb_size
     THEN \* case 1
          LET k == keep_align(rb_end, allocations, align)
              buf == k.ring_buf_end
          IN [ret |-> buf,
              ring_buf_end |-> buf + size,
              ring_buf_start |-> rb_start,
              ring_buf_allocations |->
                MapPut(k.ring_buf_allocations, buf,
                       [next_available_addr |-> buf + size, in_use |-> TRUE])]
     ELSE \* case 2 turns into case 3 or 4
          LET wrap == rb_start <= rb_end
              end2 == IF wrap THEN base ELSE rb_end
              alloc2 == IF wrap
                        THEN MapPut(allocations, rb_end,
                                    [next_available_addr |-> base, in_use |-> FALSE])
                        ELSE allocations
              real2 == size + nextalign(end2, align) - end2
              failed == [ret |-> NullPtr, ring_buf_end |-> end2,
                         ring_buf_start |-> rb_start,
                         ring_buf_allocations |-> alloc2]
          IN IF rb_start = end2
             THEN \* case 3
                  IF Cardinality(DOMAIN alloc2) = 1
                  THEN RbCarveWrap(base, end2, rb_start, rb_size, alloc2, size, align)
                  ELSE failed
             ELSE \* case 4
                  IF end2 + real2 <= rb_start
                  THEN RbCarveWrap(base, end2, rb_start, rb_size, alloc2, size, align)
                  ELSE failed

\* the while loop of ring_buf_t::release: [ring_buf_start, ring_buf_allocations, ok];
\* ok is FALSE when one of the loop's assertions fails
RECURSIVE RingBufWalk(_, _, _, _)
RingBufWalk(rb_start, allocations, base, rb_size) ==
  IF rb_start \in DOMAIN allocations /\ ~allocations[rb_start].in_use
  THEN LET to_erase == rb_start
           next == allocations[rb_start].next_available_addr
           rest == MapErase(allocations, to_erase)
           assert_ok == IF next = base THEN base + rb_size - to_erase >= 0
                        ELSE next - to_erase >= 0
       IN IF assert_ok
          THEN RingBufWalk(next, rest, base, rb_size)
          ELSE [ring_buf_start |-> next, ring_buf_allocations |-> rest, ok |-> FALSE]
  ELSE [ring_buf_start |-> rb_start, ring_buf_allocations |-> allocations, ok |-> TRUE]

\* ring_buf_t::release, past its first assertion
RingBufRelease(buf, allocations, rb_start, base, rb_size) ==
  RingBufWalk(rb_start, [allocations EXCEPT ![buf].in_use = FALSE], base, rb_size)

\* history: drop the oldest entry of held that starts at buf
RECURSIVE DropFirst(_, _)
DropFirst(held, buf) ==
  IF held = <<>> THEN <<>>
  ELSE IF held[1].buf = buf THEN Tail(held)
  ELSE <<held[1]>> \o DropFirst(Tail(held), buf)

\* history: no two chunks callers hold share a byte
RbDisjoint ==
  \A i, j \in DOMAIN rb_held :
    i # j => \/ rb_held[i].buf + rb_held[i].size <= rb_held[j].buf
             \/ rb_held[j].buf + rb_held[j].size <= rb_held[i].buf

rb_Init ==
  /\ ring_buf_start = ring_buf
  /\ ring_buf_end = ring_buf
  /\ ring_buf_allocations = EmptyMap
  /\ rb_ret = NullPtr
  /\ rb_held = <<>>

\* a caller asks for size bytes aligned on align: the constructor of staging_buf_t
\* (and of seq_staging_buf_t, cached_buf_t) followed by val(), which ends the process
\* on a null chunk
rb_acquire ==
  /\ fatal = "none"
  /\ Len(rb_held) < MaxHeld
  /\ \E rq \in RbRequests :
       LET r == RingBufAcquire(ring_buf, ring_buf_end, ring_buf_start, ring_buf_size,
                               ring_buf_allocations, rq[1], rq[2])
       IN /\ ring_buf_end' = r.ring_buf_end
          /\ ring_buf_start' = r.ring_buf_start
          /\ ring_buf_allocations' = r.ring_buf_allocations
          /\ rb_ret' = r.ret
          /\ rb_held' = IF r.ret = NullPtr THEN rb_held
                        ELSE Append(rb_held, [buf |-> r.ret, size |-> rq[1]])
          /\ fatal' = IF r.ret = NullPtr THEN "staging buf is not enough" ELSE "none"

\* a caller gives a chunk back; the REMUS_ASSERTs of release end the process
rb_release ==
  /\ fatal = "none"
  /\ \E buf \in RbAddrs :
       IF ~(buf \in DOMAIN ring_buf_allocations /\ ring_buf_allocations[buf].in_use)
       THEN /\ fatal' = "ring buf not exists or not in use, can not release"
            /\ UNCHANGED rbVars
       ELSE LET r == RingBufRelease(buf, ring_buf_allocations, ring_buf_start,
                                    ring_buf, ring_buf_size)
            IN /\ ring_buf_start' = r.ring_buf_start
               /\ ring_buf_allocations' = r.ring_buf_allocations
               /\ rb_held' = DropFirst(rb_held, buf)
               /\ fatal' = IF r.ok THEN "none"
                           ELSE "ring buf start is not greater than to_erase"
               /\ UNCHANGED <<ring_buf_end, rb_ret>>

-----------------------------------------------------------------------------
(* Sense-reversing barrier: ComputeThread::arrive_control_barrier.  Each thread   *)
(* runs the call as a sequence of one-sided operations on the barrier word; the   *)
(* FetchAndAdd, the Write and each Read of the spin loop are separate steps.      *)

\* number of threads; each passes total_threads = BarrierThreads
BarrierThreads == 3

\* each thread calls the barrier at most this many times
MaxWaves == 3

BarThreads == 1 .. BarrierThreads

\* uint64_t new_sense = 1 - (was & 1)
BarrierNewSenseSame(was) == was % 2

BarrierNewSense(was) == 1 - (was % 2)

\* (was >> 1) == (total_threads - 1)
BarrierIsLastEarly(was, total_threads) == (was \div 2) = (total_threads - 2)

BarrierIsLast(was, total_threads) == (was \div 2) = (total_threads - 1)

bar_Init ==
  /\ barrier_ = 0
  /\ bar_pc = [t \in BarThreads |-> "idle"]
  /\ bar_was = [t \in BarThreads |-> 0]
  /\ bar_calls = [t \in BarThreads |-> 0]
  /\ bar_done = [t \in BarThreads |-> 0]
  /\ bar_ret = [t \in BarThreads |-> "none"]
  /\ bar_arrived = [w \in 1 .. MaxWaves |-> 0]

\* auto was = FetchAndAdd(barrier, 2), then the test for the last arrival
bar_arrive(t) ==
  /\ fatal = "none"
  /\ bar_pc[t] = "idle"
  /\ bar_calls[t] < MaxWaves
  /\ bar_was' = [bar_was EXCEPT ![t] = barrier_]
  /\ barrier_' = barrier_ + 2
  /\ bar_calls' = [bar_calls EXCEPT ![t] = @ + 1]
  /\ bar_arrived' = [bar_arrived EXCEPT ![bar_calls[t] + 1] = @ + 1]
  /\ bar_pc' = [bar_pc EXCEPT ![t] =
                  IF BarrierIsLast(barrier_, BarrierThreads) THEN "write" ELSE "spin"]
  /\ UNCHANGED <<bar_done, bar_ret, fatal>>

\* the last arrival: Write(barrier, new_sense); return true
bar_write(t) ==
  /\ fatal = "none"
  /\ bar_pc[t] = "write"
  /\ barrier_' = BarrierNewSense(bar_was[t])
  /\ bar_pc' = [bar_pc EXCEPT ![t] = "idle"]
  /\ bar_done' = [bar_done EXCEPT ![t] = @ + 1]
  /\ bar_ret' = [bar_ret EXCEPT ![t] = "true"]
  /\ UNCHANGED <<bar_was, bar_calls, bar_arrived, fatal>>

\* one iteration of while ((Read(barrier) & 1) != new_sense) {}; return true
bar_spin(t) ==
  /\ fatal = "none"
  /\ bar_pc[t] = "spin"
  /\ IF (barrier_ % 2) # BarrierNewSense(bar_was[t])
       THEN UNCHANGED <<bar_pc, bar_done, bar_ret>>
       ELSE /\ bar_pc' = [bar_pc EXCEPT ![t] = "idle"]
            /\ bar_done' = [bar_done EXCEPT ![t] = @ + 1]
            /\ bar_ret' = [bar_ret EXCEPT ![t] = "true"]
  /\ UNCHANGED <<barrier_, bar_was, bar_calls, bar_arrived, fatal>>

-----------------------------------------------------------------------------
(* ComputeThread: one thread object, the rings it owns, the lane counters of its   *)
(* compute node, and the memory its one-sided operations reach.  A value of type   *)
(* T is the sequence of its sizeof(T) bytes, least significant byte first.         *)

\* --cn-ops-per-thread: slots of the op_counter ring and of the seq_idx ring
CN_OPS_PER_THREAD == 2

\* --cn-wrs-per-seq: work requests one sequenced group may hold
CN_WRS_PER_SEQ == 2

\* --cn-thread-bufsz: log2 of the bytes of one thread's slice
CN_THREAD_BUFSZ == 5

\* --qp-lanes
QP_LANES == 1

\* --first-mn-id, --last-mn-id
FIRST_MN_ID == 0

LAST_MN_ID == 1

\* --node-id of the process the thread runs in; it is a memory node too
node_id == 0

\* id_ of the thread, as given by ComputeNode::register_thread
id_ == 0

kMaxWr == 1024

\* sizeof(uint64_t): the width of the word an RDMA atomic works on
WordBytes == 8

\* the first byte of the values callers pass; their other bytes are zero
ByteValues == {0, 1}

MemNodes == FIRST_MN_ID .. LAST_MN_ID

\* sizeof(T) = alignof(T) of the types the callers use (uint32_t, uint64_t)
TSizes == {WordBytes \div 2, WordBytes}

\* the values of a type of sz bytes that callers pass
TValues(sz) == {[i \in 1 .. sz |-> IF i = 1 THEN b ELSE 0] : b \in ByteValues}

\* the value other threads write, and the one a compare-and-swap puts in
TMark(sz) == [i \in 1 .. sz |-> IF i = 1 THEN 1 ELSE 0]

\* the offsets in the word at which a T of sz bytes lies
TOffsets(sz) == {o \in 0 .. (WordBytes - sz) : o % sz = 0}

staging_buf_size_ == (2 ^ CN_THREAD_BUFSZ) \div 2

cached_buf_size_ == (2 ^ CN_THREAD_BUFSZ) \div 2

\* seg_slice_: the slice register_thread hands to the thread
staging_buf_ == (1 + id_) * 2 ^ CN_THREAD_BUFSZ

cached_buf_ == staging_buf_ + staging_buf_size_

\* QpSchedPolicy::get_lane_idx under policy MOD: last_lane_ = thread_id % num_lanes_
get_lane_idx(mn) == id_ % QP_LANES

\* ptr.id() == node_id
IsLocalAlways(ptr_id, nid) == TRUE

is_local(ptr_id, nid) == ptr_id = nid

\* (uint64_t)expected
ZeroExtend(v) == [i \in 1 .. WordBytes |-> IF i <= Len(v) THEN v[i] ELSE 0]

\* *(T *)staging_buf
Truncate(w, sz) == SubSeq(w, 1, sz)

MemLoad(m, n, off, sz) == [i \in 1 .. sz |-> m[n][off + i - 1]]

MemStore(m, n, off, v) ==
  [m EXCEPT ![n] = [a \in DOMAIN m[n] |->
                      IF a >= off /\ a < off + Len(v) THEN v[a - off + 1] ELSE m[n][a]]]

\* IBV_WR_ATOMIC_CMP_AND_SWP on the 8-byte word: the old word, and the new one
NicCompareAndSwap(word, compare_add, swap) ==
  [prev |-> word, word |-> IF word = compare_add THEN swap ELSE word]

Overlaps(n1, off1, len1, n2, off2, len2) ==
  n1 = n2 /\ off1 < off2 + len2 /\ off2 < off1 + len1

NoWrite == [valid |-> FALSE, n |-> 0, off |-> 0, val |-> <<>>]

\* wr_pending once len bytes at (n, off) have been written by anyone
Overwritten(p, n, off, len) ==
  IF p.valid /\ Overlaps(p.n, p.off, Len(p.val), n, off, len) THEN NoWrite ELSE p

\* the thread's resources as one record; buf, idx and seq_idx carry what the last
\* helper handed out, fatal the assertion that ended the process
CtRes ==
  [op_counter_start |-> op_counter_start, op_counter_end |-> op_counter_end,
   op_counter_assignments |-> op_counter_assignments,
   seq_op_counter_start |-> seq_op_counter_start,
   seq_op_counter_end |-> seq_op_counter_end,
   seq_op_counter_assignments |-> seq_op_counter_assignments,
   seq_send_wrs |-> seq_send_wrs,
   staging_buf_start |-> staging_buf_start, staging_buf_end |-> staging_buf_end,
   staging_buf_allocations_ |-> staging_buf_allocations_,
   cached_buf_start |-> cached_buf_start, cached_buf_end |-> cached_buf_end,
   cached_buf_allocations_ |-> cached_buf_allocations_,
   cached_buf_manager_ |-> cached_buf_manager_,
   lane_op_counters_ |-> lane_op_counters_,
   buf |-> NullPtr, idx |-> NullOpt, seq_idx |-> NullOpt, fatal |-> "none"]

ApplyRes(r) ==
  /\ op_counter_start' = r.op_counter_start
  /\ op_counter_end' = r.op_counter_end
  /\ op_counter_assignments' = r.op_counter_assignments
  /\ seq_op_counter_start' = r.seq_op_counter_start
  /\ seq_op_counter_end' = r.seq_op_counter_end
  /\ seq_op_counter_assignments' = r.seq_op_counter_assignments
  /\ seq_send_wrs' = r.seq_send_wrs
  /\ staging_buf_start' = r.staging_buf_start
  /\ staging_buf_end' = r.staging_buf_end
  /\ staging_buf_allocations_' = r.staging_buf_allocations_
  /\ cached_buf_start' = r.cached_buf_start
  /\ cached_buf_end' = r.cached_buf_end
  /\ cached_buf_allocations_' = r.cached_buf_allocations_
  /\ cached_buf_manager_' = r.cached_buf_manager_
  /\ lane_op_counters_' = r.lane_op_counters_
  /\ fatal' = r.fatal

resVars == <<fatal, op_counter_start, op_counter_end, op_counter_assignments,
             seq_op_counter_start, seq_op_counter_end, seq_op_counter_assignments,
             seq_send_wrs, staging_buf_start, staging_buf_end,
             staging_buf_allocations_, cached_buf_start, cached_buf_end,
             cached_buf_allocations_, cached_buf_manager_, lane_op_counters_>>

\* Lane::Lane
LaneEnter(r, lane) ==
  IF r.fatal # "none" THEN r
  ELSE [r EXCEPT !.lane_op_counters_[lane] = @ + 1,
                 !.fatal = IF r.lane_op_counters_[lane] + 1 >= kMaxWr
                             THEN "lane_op_counters is greater than kMaxWr"
                             ELSE "none"]

\* Lane::~Lane
LaneLeave(r, lane) ==
  IF r.fatal # "none" THEN r ELSE [r EXCEPT !.lane_op_counters_[lane] = @ - 1]

\* op_counter_t::op_counter_t
OpCounterTake(r) ==
  IF r.fatal # "none" THEN r
  ELSE LET a == RingCounterAcquire(r.op_counter_end, r.op_counter_assignments,
                                   CN_OPS_PER_THREAD)
       IN [r EXCEPT !.op_counter_end = a.counter_end,
                    !.op_counter_assignments = a.counter_assignments,
                    !.idx = a.ret,
                    !.fatal = IF a.ret = NullOpt THEN "op_counter is not available"
                              ELSE "none"]

\* op_counter_t::~op_counter_t
OpCounterGive(r, idx) ==
  IF r.fatal # "none" THEN r
  ELSE IF r.op_counter_assignments[idx] # "IN_USE"
    THEN [r EXCEPT !.fatal = "ring_counter double free is not allowed"]
    ELSE LET a == RingCounterRelease(idx, r.op_counter_start,
                                     r.op_counter_assignments, CN_OPS_PER_THREAD)
         IN [r EXCEPT !.op_counter_start = a.counter_start,
                      !.op_counter_assignments = a.counter_assignments]

\* seq_idx_t::seq_idx_t for coroutine slot 0
SeqIdxTake(r) ==
  IF r.fatal # "none" THEN r
  ELSE LET a == RingCounterAcquire(r.seq_op_counter_end, r.seq_op_counter_assignments,
                                   CN_OPS_PER_THREAD)
       IN [r EXCEPT !.seq_op_counter_end = a.counter_end,
                    !.seq_op_counter_assignments = a.counter_assignments,
                    !.seq_idx = a.ret,
                    !.fatal = IF a.ret = NullOpt THEN "seq_idx is not available"
                              ELSE "none"]

\* seq_idx_t::~seq_idx_t
SeqIdxGive(r, idx) ==
  IF r.fatal # "none" THEN r
  ELSE IF r.seq_op_counter_assignments[idx] # "IN_USE"
    THEN [r EXCEPT !.fatal = "ring_counter double free is not allowed"]
    ELSE LET a == RingCounterRelease(idx, r.seq_op_counter_start,
                                     r.seq_op_counter_assignments, CN_OPS_PER_THREAD)
         IN [r EXCEPT !.seq_op_counter_start = a.counter_start,
                      !.seq_op_counter_assignments = a.counter_assignments]

\* staging_buf_t::staging_buf_t followed by val()
StagingTake(r, size, align) ==
  IF r.fatal # "none" THEN r
  ELSE LET a == RingBufAcquire(staging_buf_, r.staging_buf_end, r.staging_buf_start,
                               staging_buf_size_, r.staging_buf_allocations_,
                               size, align)
       IN [r EXCEPT !.staging_buf_end = a.ring_buf_end,
                    !.staging_buf_start = a.ring_buf_start,
                    !.staging_buf_allocations_ = a.ring_buf_allocations,
                    !.buf = a.ret,
                    !.fatal = IF a.ret = NullPtr THEN "staging buf is not enough"
                              ELSE "none"]

\* seq_staging_buf_t::seq_staging_buf_t followed by val()
SeqStagingTake(r, size, align) ==
  LET t == StagingTake(r, size, align)
  IN IF r.fatal = "none" /\ t.fatal # "none"
       THEN [t EXCEPT !.fatal = "seq staging buf is not enough"] ELSE t

\* staging_buf_t::~staging_buf_t and seq_staging_buf_t::~seq_staging_buf_t
StagingGive(r, buf) ==
  IF r.fatal # "none" THEN r
  ELSE IF buf \notin DOMAIN r.staging_buf_allocations_
          \/ ~ r.staging_buf_allocations_[buf].in_use
    THEN [r EXCEPT !.fatal = "ring buf not exists or not in use, can not release"]
    ELSE LET a == RingBufRelease(buf, r.staging_buf_allocations_, r.staging_buf_start,
                                 staging_buf_, staging_buf_size_)
         IN [r EXCEPT !.staging_buf_start = a.ring_buf_start,
                      !.staging_buf_allocations_ = a.ring_buf_allocations,
                      !.fatal = IF a.ok THEN "none"
                                ELSE "ring buf start is not greater than to_erase"]

\* cached_buf_t::cached_buf_t followed by val()
CachedTake(r, size, align) ==
  IF r.fatal # "none" THEN r
  ELSE LET a == RingBufAcquire(cached_buf_, r.cached_buf_end, r.cached_buf_start,
                               cached_buf_size_, r.cached_buf_allocations_,
                               size, align)
       IN [r EXCEPT !.cached_buf_end = a.ring_buf_end,
                    !.cached_buf_start = a.ring_buf_start,
                    !.cached_buf_allocations_ = a.ring_buf_allocations,
                    !.buf = a.ret,
                    !.fatal = IF a.ret = NullPtr
                                THEN "cached_buf_t::val() called on a null buffer"
                                ELSE "none"]

\* cached_buf_t::~cached_buf_t of an object that owns buf
CachedGive(r, buf) ==
  IF r.fatal # "none" THEN r
  ELSE IF buf \notin DOMAIN r.cached_buf_allocations_
          \/ ~ r.cached_buf_allocations_[buf].in_use
    THEN [r EXCEPT !.fatal = "ring buf not exists or not in use, can not release"]
    ELSE LET a == RingBufRelease(buf, r.cached_buf_allocations_, r.cached_buf_start,
                                 cached_buf_, cached_buf_size_)
         IN [r EXCEPT !.cached_buf_start = a.ring_buf_start,
                      !.cached_buf_allocations_ = a.ring_buf_allocations,
                      !.fatal = IF a.ok THEN "none"
                                ELSE "ring buf start is not greater than to_erase"]

\* what a synchronous operation does to the thread's resources: the Lane lives to the
\* end of the call; the op_counter_t and the staging_buf_t are temporaries that are
\* destroyed at the end of the statement that creates them.  buf is the staging chunk.
SyncResources(r, lane, size, align) ==
  LET r1 == OpCounterTake(LaneEnter(r, lane))
      r2 == OpCounterGive(r1, r1.idx)
      r3 == StagingTake(r2, size, align)
      r4 == StagingGive(r3, r3.buf)
  IN LaneLeave(r4, lane)

NoOp == [op |-> "none", n |-> 0, off |-> 0, ret |-> <<>>, expected |-> <<>>,
         swapped |-> FALSE, result |-> <<>>, complete |-> FALSE, signal |-> FALSE,
         fetched |-> <<>>]

mem_Init ==
  /\ mem = [n \in MemNodes |-> [a \in 0 .. (WordBytes - 1) |-> 0]]
  /\ control_flag_ = [n \in MemNodes |-> 0]

ct_Init ==
  /\ op_counter_start = 0
  /\ op_counter_end = 0
  /\ op_counter_assignments = [i \in 0 .. (CN_OPS_PER_THREAD - 1) |-> "AVAILABLE"]
  /\ seq_op_counter_start = 0
  /\ seq_op_counter_end = 0
  /\ seq_op_counter_assignments = [i \in 0 .. (CN_OPS_PER_THREAD - 1) |-> "AVAILABLE"]
  /\ seq_send_wrs = EmptyMap
  /\ staging_buf_start = staging_buf_
  /\ staging_buf_end = staging_buf_
  /\ staging_buf_allocations_ = EmptyMap
  /\ cached_buf_start = cached_buf_
  /\ cached_buf_end = cached_buf_
  /\ cached_buf_allocations_ = EmptyMap
  /\ cached_buf_manager_ = {}
  /\ lane_op_counters_ = [l \in 0 .. (QP_LANES - 1) |-> 0]
  /\ ct_state = "live"
  /\ ct_last = NoOp
  /\ wr_pending = NoWrite

\* ComputeThread::Write(ptr, val, fence, size = sizeof(T), local_copy) for the pointer
\* (n, off): a memcpy in the caller's own process when the pointer is taken to be
\* local, a staged RDMA write otherwise
ct_Write(n, off, val, local_copy) ==
  /\ fatal = "none" /\ ct_state = "live"
  /\ IF local_copy /\ is_local(n, node_id)
       THEN /\ mem' = MemStore(mem, node_id, off, val)
            /\ wr_pending' = [valid |-> TRUE, n |-> n, off |-> off, val |-> val]
            /\ ct_last' = [NoOp EXCEPT !.op = "Write"]
            /\ UNCHANGED resVars
       ELSE \E r0 \in {SyncResources(CtRes, get_lane_idx(n), Len(val), Len(val))} :
            \E r \in {IF r0.fatal = "none" /\ r0.buf = off
                        THEN [r0 EXCEPT !.fatal = "WTF"] ELSE r0} :
              /\ ApplyRes(r)
              /\ mem' = IF r.fatal = "none" THEN MemStore(mem, n, off, val) ELSE mem
              /\ wr_pending' = IF r.fatal = "none"
                                 THEN [valid |-> TRUE, n |-> n, off |-> off, val |-> val]
                                 ELSE wr_pending
              /\ ct_last' = IF r.fatal = "none" THEN [NoOp EXCEPT !.op = "Write"]
                            ELSE ct_last
  /\ UNCHANGED <<control_flag_, ct_state>>

\* T ComputeThread::Read(ptr, fence) for the pointer (n, off) and sizeof(T) = sz
ct_Read(n, off, sz) ==
  /\ fatal = "none" /\ ct_state = "live"
  /\ \E r \in {SyncResources(CtRes, get_lane_idx(n), sz, sz)} :
       /\ ApplyRes(r)
       /\ ct_last' = IF r.fatal # "none" THEN ct_last
                     ELSE [NoOp EXCEPT !.op = "Read", !.n = n, !.off = off,
                                       !.ret = MemLoad(mem, n, off, sz)]
  /\ UNCHANGED <<memVars, wr_pending, ct_state>>

\* T ComputeThread::CompareAndSwap(ptr, expected, swap, fence) for the pointer (n, off)
\* with sizeof(T) = Len(expected); the adapter compares and replaces the 8-byte word
ct_CompareAndSwap(n, off, expected, swap) ==
  /\ fatal = "none" /\ ct_state = "live"
  /\ \E r \in {SyncResources(CtRes, get_lane_idx(n), Len(expected), Len(expected))},
        c \in {NicCompareAndSwap(MemLoad(mem, n, off, WordBytes),
                                 ZeroExtend(expected), ZeroExtend(swap))} :
       /\ ApplyRes(r)
       /\ mem' = IF r.fatal = "none" THEN MemStore(mem, n, off, c.word) ELSE mem
       /\ wr_pending' = IF r.fatal = "none" /\ c.word # c.prev
                          THEN Overwritten(wr_pending, n, off, WordBytes)
                          ELSE wr_pending
       /\ ct_last' = IF r.fatal # "none" THEN ct_last
                     ELSE [NoOp EXCEPT !.op = "CompareAndSwap",
                                       !.ret = Truncate(c.prev, Len(expected)),
                                       !.expected = expected,
                                       !.swapped = (c.prev = ZeroExtend(expected))]
  /\ UNCHANGED <<control_flag_, ct_state>>

\* a Write by a thread of another compute node lands in the memory node
other_Write(n, off, val) ==
  /\ fatal = "none"
  /\ mem' = MemStore(mem, n, off, val)
  /\ wr_pending' = Overwritten(wr_pending, n, off, Len(val))
  /\ UNCHANGED <<resVars, control_flag_, ct_state, ct_last>>

-----------------------------------------------------------------------------
(* ComputeThread: sequenced groups, the cached ring, and the destructor.  A group   *)
(* is a seq_send_wrs_t: the lane it holds, the slots and chunks its operations     *)
(* took, and its work requests; a work request carries the value that WriteConfig  *)
(* put in its staging chunk.                                                       *)

\* how many elements of uint64_t a caller of local_allocate asks for
LocalElements == 1 .. ((cached_buf_size_ \div WordBytes))

\* a seq_send_wrs_t as operator[] creates it
NewGroup ==
  [posted |-> FALSE, lane |-> NullOpt, op_counters |-> <<>>, staging_bufs |-> <<>>,
   send_wrs |-> <<>>]

\* the index find_seq_idx computes as last_seq_idx
LastSeqIdx(r) ==
  (r.seq_op_counter_end + CN_OPS_PER_THREAD - 1) % CN_OPS_PER_THREAD

\* find_seq_idx takes its first return: the last group exists and is not posted
HasOpenGroup(r) ==
  /\ DOMAIN r.seq_send_wrs # {}
  /\ LastSeqIdx(r) \in DOMAIN r.seq_send_wrs
  /\ ~ r.seq_send_wrs[LastSeqIdx(r)].posted

\* ComputeThread::find_seq_idx(ptr, 0) for a pointer into node n
find_seq_idx(r, n) ==
  IF r.fatal # "none" THEN r
  ELSE IF HasOpenGroup(r)
    THEN [r EXCEPT !.seq_idx = LastSeqIdx(r),
                   !.fatal = IF Len(r.seq_send_wrs[LastSeqIdx(r)].send_wrs)
                                  < CN_WRS_PER_SEQ
                               THEN "none" ELSE "seq_send_wrs[] is full"]
    ELSE IF Cardinality(DOMAIN r.seq_send_wrs) >= CN_OPS_PER_THREAD
      THEN [r EXCEPT !.fatal = "seq_send_wrs is full"]
      ELSE LET r1 == SeqIdxTake(r)
           IN IF r1.fatal # "none" THEN r1
              ELSE LET r2 == [r1 EXCEPT !.seq_send_wrs =
                                          MapPut(@, r1.seq_idx, NewGroup)]
                       r3 == LaneEnter(r2, get_lane_idx(n))
                   IN [r3 EXCEPT !.seq_send_wrs[r1.seq_idx].lane = get_lane_idx(n)]

\* the part ReadSeq and WriteSeq share: find the group, take a chunk and a slot, and
\* push them and the work request wr onto the group
SeqPush(r, n, size, align, wr) ==
  LET r1 == find_seq_idx(r, n)
      r2 == SeqStagingTake(r1, size, align)
      r3 == IF r2.fatal # "none" THEN r2
            ELSE [r2 EXCEPT !.seq_send_wrs[r1.seq_idx].staging_bufs = Append(@, r2.buf)]
      r4 == OpCounterTake(r3)
  IN IF r4.fatal # "none" THEN r4
     ELSE [r4 EXCEPT !.seq_send_wrs[r1.seq_idx].op_counters = Append(@, r4.idx),
                     !.seq_send_wrs[r1.seq_idx].send_wrs = Append(@, wr)]

\* the chain of work requests as the NIC runs it, in order: [mem, staging, fetched,
\* pending]; staging is what the group's staging chunks hold afterwards, chunk by chunk
\* (the value WriteConfig copied in, or the bytes a read fetched), and fetched is what
\* the reads into staging chunks fetched, in issue order
RECURSIVE SeqPost(_, _, _, _, _)
SeqPost(m, wrs, staging, fetched, pending) ==
  IF wrs = <<>>
    THEN [mem |-> m, staging |-> staging, fetched |-> fetched, pending |-> pending]
  ELSE LET w == Head(wrs)
       IN IF w.opcode = "IBV_WR_RDMA_WRITE"
            THEN SeqPost(MemStore(m, w.n, w.off, w.val), Tail(wrs),
                         IF w.staged THEN Append(staging, w.val) ELSE staging, fetched,
                         Overwritten(pending, w.n, w.off, Len(w.val)))
            ELSE LET v == MemLoad(m, w.n, w.off, w.size)
                 IN SeqPost(m, Tail(wrs),
                            IF w.staged THEN Append(staging, v) ELSE staging,
                            IF w.staged THEN Append(fetched, v) ELSE fetched, pending)

\* ComputeThread::get_seq_op_result: for every index i of staging_bufs, the chunk i is
\* collected when send_wrs[i] is not a write
RECURSIVE get_seq_op_result(_, _, _, _)
get_seq_op_result(send_wrs, staging, i, result) ==
  IF i > Len(staging) THEN result
  ELSE get_seq_op_result(send_wrs, staging, i + 1,
                         IF send_wrs[i].opcode # "IBV_WR_RDMA_WRITE"
                           THEN Append(result, staging[i]) ELSE result)

RECURSIVE StagingGiveAll(_, _)
StagingGiveAll(r, bufs) ==
  IF bufs = <<>> THEN r ELSE StagingGiveAll(StagingGive(r, Head(bufs)), Tail(bufs))

RECURSIVE OpCounterGiveAll(_, _)
OpCounterGiveAll(r, idxs) ==
  IF idxs = <<>> THEN r ELSE OpCounterGiveAll(OpCounterGive(r, Head(idxs)), Tail(idxs))

\* seq_send_wrs[0].erase(seq_idx): the members of the seq_send_wrs_t are destroyed
\* last declared first: send_wrs, staging_bufs, op_counters, lane, seq_idx
SeqErase(r, seq_idx) ==
  LET g == r.seq_send_wrs[seq_idx]
      r1 == [r EXCEPT !.seq_send_wrs = MapErase(@, seq_idx)]
      r2 == OpCounterGiveAll(StagingGiveAll(r1, g.staging_bufs), g.op_counters)
  IN SeqIdxGive(LaneLeave(r2, g.lane), seq_idx)

\* the callers keep to "ensure all ptrs in seq belong to the same memory segment" and
\* collect a group's results as the one T they read them with
SeqJoinable(n, size) ==
  HasOpenGroup(CtRes) =>
    \A i \in DOMAIN seq_send_wrs[LastSeqIdx(CtRes)].send_wrs :
      LET w == seq_send_wrs[LastSeqIdx(CtRes)].send_wrs[i]
      IN w.n = n /\ w.size = size

\* what ReadSeq and WriteSeq do once the work request is pushed
SeqFinish(r, signal, name) ==
  IF r.fatal # "none"
    THEN /\ ApplyRes(r)
         /\ UNCHANGED <<mem, wr_pending, ct_last>>
    ELSE IF ~signal
      THEN /\ ApplyRes(r)
           /\ ct_last' = [NoOp EXCEPT !.op = name]
           /\ UNCHANGED <<mem, wr_pending>>
      ELSE \E p \in {SeqPost(mem, r.seq_send_wrs[r.seq_idx].send_wrs, <<>>, <<>>,
                             wr_pending)} :
             /\ ApplyRes(SeqErase(r, r.seq_idx))
             /\ mem' = p.mem
             /\ wr_pending' = p.pending
             /\ ct_last' = [NoOp EXCEPT
                              !.op = name, !.signal = TRUE, !.complete = TRUE,
                              !.fetched = p.fetched,
                              !.result = get_seq_op_result(
                                           r.seq_send_wrs[r.seq_idx].send_wrs,
                                           p.staging, 1, <<>>)]

\* std::optional<std::vector<T>> ComputeThread::ReadSeq(ptr, signal, fence) for the
\* pointer (n, off) and sizeof(T) = size
ct_ReadSeq(n, off, size, signal) ==
  /\ fatal = "none" /\ ct_state = "live"
  /\ SeqJoinable(n, size)
  /\ \E r \in {SeqPush(CtRes, n, size, size,
                       [opcode |-> "IBV_WR_RDMA_READ", n |-> n, off |-> off,
                        size |-> size, val |-> <<>>, staged |-> TRUE])} :
       SeqFinish(r, signal, "ReadSeq")
  /\ UNCHANGED <<control_flag_, ct_state>>

\* ComputeThread::WriteSeq(ptr, val, signal, fence, size = sizeof(T), local_copy) for
\* the pointer (n, off)
ct_WriteSeq(n, off, val, signal, local_copy) ==
  /\ fatal = "none" /\ ct_state = "live"
  /\ IF local_copy /\ is_local(n, node_id)
       THEN /\ mem' = MemStore(mem, node_id, off, val)
            /\ wr_pending' = Overwritten(wr_pending, node_id, off, Len(val))
            /\ ct_last' = [NoOp EXCEPT !.op = "WriteSeq", !.signal = signal]
            /\ UNCHANGED resVars
       ELSE /\ SeqJoinable(n, Len(val))
            /\ \E r0 \in {SeqPush(CtRes, n, Len(val), Len(val),
                                  [opcode |-> "IBV_WR_RDMA_WRITE", n |-> n,
                                   off |-> off, size |-> Len(val), val |-> val,
                                   staged |-> TRUE])} :
               \E r \in {IF r0.fatal = "none" /\ r0.buf = off
                           THEN [r0 EXCEPT !.fatal = "WTF"] ELSE r0} :
                 SeqFinish(r, signal, "WriteSeq")
  /\ UNCHANGED <<control_flag_, ct_state>>

\* the part the zero-copy ReadSeq and WriteSeq share: find the group, take a slot, and
\* push it and the work request wr onto the group; no staging chunk is taken
SeqPushZeroCopy(r, n, wr) ==
  LET r1 == find_seq_idx(r, n)
      r2 == OpCounterTake(r1)
  IN IF r2.fatal # "none" THEN r2
     ELSE [r2 EXCEPT !.seq_send_wrs[r1.seq_idx].op_counters = Append(@, r2.idx),
                     !.seq_send_wrs[r1.seq_idx].send_wrs = Append(@, wr)]

\* ComputeThread::ReadSeq(ptr, seg, signal, fence, size): the zero-copy form, which
\* reads into the caller's seg
ct_ReadSeqZeroCopy(n, off, size, signal) ==
  /\ fatal = "none" /\ ct_state = "live"
  /\ SeqJoinable(n, size)
  /\ \E r \in {SeqPushZeroCopy(CtRes, n,
                               [opcode |-> "IBV_WR_RDMA_READ", n |-> n, off |-> off,
                                size |-> size, val |-> <<>>, staged |-> FALSE])} :
       SeqFinish(r, signal, "ReadSeq")
  /\ UNCHANGED <<control_flag_, ct_state>>

\* ComputeThread::WriteSeq(ptr, seg, signal, fence, size, local_copy): the zero-copy
\* form, which writes the bytes val of the caller's seg
ct_WriteSeqZeroCopy(n, off, val, signal, local_copy) ==
  /\ fatal = "none" /\ ct_state = "live"
  /\ IF local_copy /\ is_local(n, node_id)
       THEN /\ mem' = MemStore(mem, node_id, off, val)
            /\ wr_pending' = Overwritten(wr_pending, node_id, off, Len(val))
            /\ ct_last' = [NoOp EXCEPT !.op = "WriteSeq", !.signal = signal]
            /\ UNCHANGED resVars
       ELSE /\ SeqJoinable(n, Len(val))
            /\ \E r \in {SeqPushZeroCopy(CtRes, n,
                                         [opcode |-> "IBV_WR_RDMA_WRITE", n |-> n,
                                          off |-> off, size |-> Len(val), val |-> val,
                                          staged |-> FALSE])} :
                 SeqFinish(r, signal, "WriteSeq")
  /\ UNCHANGED <<control_flag_, ct_state>>

\* T *ComputeThread::local_allocate<uint64_t>(num_elements)
ct_local_allocate(num_elements) ==
  /\ fatal = "none" /\ ct_state = "live"
  /\ \E r0 \in {CachedTake(CtRes, WordBytes * num_elements, WordBytes)} :
     \E r \in {IF r0.fatal # "none" THEN r0
               ELSE IF ~(r0.buf >= cached_buf_
                         /\ r0.buf + WordBytes * num_elements
                              <= cached_buf_ + cached_buf_size_)
                 THEN [r0 EXCEPT !.fatal = "Cached buf out of range"]
               ELSE IF r0.buf \in r0.cached_buf_manager_
                 THEN [r0 EXCEPT !.fatal = "Failed to allocate memory"]
               ELSE [r0 EXCEPT !.cached_buf_manager_ = @ \cup {r0.buf}]} :
       /\ ApplyRes(r)
       /\ ct_last' = IF r.fatal # "none" THEN ct_last
                     ELSE [NoOp EXCEPT !.op = "local_allocate", !.off = r.buf]
  /\ UNCHANGED <<memVars, wr_pending, ct_state>>

\* ComputeThread::local_deallocate(buf): erasing the entry destroys its cached_buf_t
ct_local_deallocate(buf) ==
  /\ fatal = "none" /\ ct_state = "live"
  /\ \E r \in {IF buf \in cached_buf_manager_
                 THEN CachedGive([CtRes EXCEPT !.cached_buf_manager_ = @ \ {buf}], buf)
                 ELSE CtRes} :
       /\ ApplyRes(r)
       /\ ct_last' = IF r.fatal # "none" THEN ct_last
                     ELSE [NoOp EXCEPT !.op = "local_deallocate"]
  /\ UNCHANGED <<memVars, wr_pending, ct_state>>

\* the messages of the assertions of no_leak_detected
LeakMessages ==
  {"Leak detected, op_counter_start, op_counter_end",
   "Leak detected, seq_op_counter_start, seq_op_counter_end",
   "Leak detected, seq_send_wrs is not empty",
   "Leak detected in global staging buffer",
   "Leak detected in global cached buffer",
   "Leak detected, cached_buf_allocations is not empty",
   "Leak detected, lane_op_counters_ is not 0"}

\* ComputeThread::no_leak_detected: the message of its first assertion that fails
no_leak_detected(r) ==
  IF r.op_counter_start # r.op_counter_end
    THEN "Leak detected, op_counter_start, op_counter_end"
  ELSE IF r.seq_op_counter_start # r.seq_op_counter_end
    THEN "Leak detected, seq_op_counter_start, seq_op_counter_end"
  ELSE IF DOMAIN r.seq_send_wrs # {}
    THEN "Leak detected, seq_send_wrs is not empty"
  ELSE IF r.staging_buf_start # r.staging_buf_end
    THEN "Leak detected in global staging buffer"
  ELSE IF r.cached_buf_start # r.cached_buf_end
    THEN "Leak detected in global cached buffer"
  ELSE IF DOMAIN r.cached_buf_allocations_ # {}
    THEN "Leak detected, cached_buf_allocations is not empty"
  ELSE IF \E l \in DOMAIN r.lane_op_counters_ : r.lane_op_counters_[l] # 0
    THEN "Leak detected, lane_op_counters_ is not 0"
  ELSE "none"

\* the loop of ~ComputeThread from index i on: FetchAndAdd(control_flag, 1) on segment
\* 0 of segs_[i], which is memory node i because FIRST_MN_ID is 0 here;
\* [r, control_flag_]
RECURSIVE SendShutdown(_, _, _)
SendShutdown(r, flags, i) ==
  IF i >= LAST_MN_ID - FIRST_MN_ID + 1 \/ r.fatal # "none"
    THEN [r |-> r, control_flag_ |-> flags]
    ELSE LET r1 == SyncResources(r, get_lane_idx(i), WordBytes, WordBytes)
         IN SendShutdown(r1,
                         IF r1.fatal = "none" THEN [flags EXCEPT ![i] = @ + 1] ELSE flags,
                         i + 1)

\* ComputeThread::~ComputeThread.  ct_last.complete records whether the thread had
\* collected every group and given back every buffer of local_allocate before.
ct_drop ==
  /\ fatal = "none" /\ ct_state = "live"
  /\ \E d \in {SendShutdown(CtRes, control_flag_, 0)} :
       /\ ApplyRes(IF d.r.fatal # "none" THEN d.r
                   ELSE [d.r EXCEPT !.fatal = no_leak_detected(d.r)])
       /\ control_flag_' = d.control_flag_
  /\ ct_state' = "dropped"
  /\ ct_last' = [NoOp EXCEPT !.op = "~ComputeThread",
                             !.complete = (DOMAIN seq_send_wrs = {}
                                           /\ cached_buf_manager_ = {})]
  /\ UNCHANGED <<mem, wr_pending>>

\* the thread has no slot, no chunk, no group and no buffer of its own outstanding: the
\* assertions of no_leak_detected on the thread's own members hold
OwnsNothing(r) ==
  no_leak_detected([r EXCEPT !.lane_op_counters_ = [l \in DOMAIN @ |-> 0]]) = "none"

\* bool ComputeThread::no_leak_detected() called by the running thread
ct_no_leak_detected ==
  /\ fatal = "none" /\ ct_state = "live"
  /\ ApplyRes([CtRes EXCEPT !.fatal = no_leak_detected(CtRes)])
  /\ ct_last' = [NoOp EXCEPT !.op = "no_leak_detected", !.complete = OwnsNothing(CtRes)]
  /\ UNCHANGED <<memVars, wr_pending, ct_state>>

\* the lane a thread with the next id_ uses for memory node mn
peer_lane_idx(mn) == (id_ + 1) % QP_LANES

peer_Init == peer_lane = NullOpt

\* another thread of the compute node starts a one-sided operation on memory node n:
\* Lane::Lane on the node's lane_op_counters_
peer_op_begin(n) ==
  /\ fatal = "none"
  /\ peer_lane = NullOpt
  /\ ApplyRes(LaneEnter(CtRes, peer_lane_idx(n)))
  /\ peer_lane' = peer_lane_idx(n)
  /\ UNCHANGED <<ct_state, ct_last, wr_pending>>

\* its operation ends: Lane::~Lane
peer_op_end ==
  /\ fatal = "none"
  /\ peer_lane # NullOpt
  /\ ApplyRes(LaneLeave(CtRes, peer_lane))
  /\ peer_lane' = NullOpt
  /\ UNCHANGED <<ct_state, ct_last, wr_pending>>
-----------------------------------------------------------------------------
(* BumpAllocator and MnAllocPolicy: threads of the compute nodes carve blocks from   *)
(* the segments of the memory nodes by fetch-and-add on ControlBlock::allocated_,   *)
(* and keep the blocks they are given back in free lists of their own.  An address  *)
(* is one number: the segments lie one after the other, each aligned on its size.   *)
(* The one-sided operations of allocate and deallocate are synchronous; what they   *)
(* do to the segments is modelled here, what they do to the calling thread's rings  *)
(* is modelled by ct_Read and ct_Write.                                             *)

\* --seg-size: log2 of the bytes of a segment
SEG_SIZE == 8

\* --segs-per-mn
SEGS_PER_MN == 1

\* --first-cn-id, --last-cn-id, --cn-threads
FIRST_CN_ID == 0

LAST_CN_ID == 1

CN_THREADS == 2

\* how many allocate calls the threads make, at most, all together
MaxAllocCalls == 2

ALLOC_SMALL_THRESH == 1024

ALLOC_MED_THRESH == 8192

\* sizeof(header_t)
HEADER_SIZE == 16

\* sizeof(ControlBlock)
ControlBlockSize == 64

seg_size_ == 2 ^ SEG_SIZE

\* the fetch-and-adds on one segment stop here, far below 2^64
MaxAllocated == seg_size_ + (seg_size_ \div 2)

\* the threads that allocate, as <<node id, thread id>>: the last thread of the first
\* compute node and the first thread of the last one
AllocThreads == {<<FIRST_CN_ID, CN_THREADS - 1>>, <<LAST_CN_ID, 0>>}

AllocNodes == {t[1] : t \in AllocThreads}

\* the values of --alloc-pol that to_policy accepts
AllocPolicies == {"GLOBAL-MOD", "GLOBAL-RR", "RAND", "LOCAL-RR", "LOCAL-MOD"}

\* the n of the allocate<uint64_t>(n) calls: size classes 64 and 128
AllocElements == {1, 14}

Segs == MemNodes \X (0 .. (SEGS_PER_MN - 1))

\* MnAllocPolicy::num_segs_, num_mns_, total_segs_
num_segs_ == SEGS_PER_MN

num_mns_ == LAST_MN_ID + 1

total_segs_ == num_segs_ * num_mns_

\* ComputeNode::get_seg_start
get_seg_start(mn_id, seg_id) == (mn_id * SEGS_PER_MN + seg_id + 1) * seg_size_

\* the segment an address lies in
SegOf(addr) ==
  <<((addr \div seg_size_) - 1) \div SEGS_PER_MN, ((addr \div seg_size_) - 1) % SEGS_PER_MN>>

\* BumpAllocator::calculate_slabclass, and one that does not round
SlabclassExact(size) == size

calculate_slabclass(size) ==
  IF size <= ALLOC_SMALL_THRESH THEN ((size + 63) \div 64) * 64
  ELSE IF size <= ALLOC_MED_THRESH THEN ((size + 1023) \div 1024) * 1024
  ELSE ((size + 63) \div 64) * 64

\* BumpAllocator::compute_size<T>(n)
compute_size(sizeof_T, n) == calculate_slabclass(sizeof_T * n + HEADER_SIZE)

\* the command-line arguments MnAllocPolicy reads
ClusterArgs ==
  [FIRST_MN_ID |-> FIRST_MN_ID, LAST_MN_ID |-> LAST_MN_ID, FIRST_CN_ID |-> FIRST_CN_ID,
   LAST_CN_ID |-> LAST_CN_ID, CN_THREADS |-> CN_THREADS, SEGS_PER_MN |-> SEGS_PER_MN,
   SEG_SIZE |-> SEG_SIZE]

\* thread_uid of MnAllocPolicy::set_policy
thread_uid_of(args, t) == (t[1] - args.FIRST_CN_ID) * args.CN_THREADS + t[2]

thread_uid(t) == thread_uid_of(ClusterArgs, t)

\* MnAllocPolicy::set_policy for thread t = <<NODE_ID, thread_id>> under the arguments
\* args: the states it can leave the policy in (prng_.rand() can give any value)
set_policy_of(args, policy, t) ==
  LET nsegs == args.SEGS_PER_MN
      nmns == args.LAST_MN_ID + 1
      seg_uid == thread_uid_of(args, t) % (nsegs * nmns)
      all_nodes_both == args.FIRST_CN_ID = args.FIRST_MN_ID
                          /\ args.LAST_CN_ID = args.LAST_MN_ID
  IN IF policy = "GLOBAL-MOD"
       THEN {[last_mn_ |-> seg_uid \div nsegs, last_seg_ |-> seg_uid % nsegs,
              fatal |-> "none"]}
     ELSE IF policy = "GLOBAL-RR"
       THEN {[last_mn_ |-> m, last_seg_ |-> s, fatal |-> "none"] :
               m \in 0 .. (nmns - 1), s \in 0 .. (nsegs - 1)}
     ELSE IF policy = "LOCAL-MOD"
       THEN IF all_nodes_both
              THEN {[last_mn_ |-> t[1], last_seg_ |-> t[2] % nsegs, fatal |-> "none"]}
              ELSE {[last_mn_ |-> 0, last_seg_ |-> 0,
                     fatal |-> "LOCAL_MOD requires every node to be Compute and Memory"]}
     ELSE IF policy = "LOCAL-RR"
       THEN IF all_nodes_both
              THEN {[last_mn_ |-> t[1], last_seg_ |-> s, fatal |-> "none"] :
                      s \in 0 .. (nsegs - 1)}
              ELSE {[last_mn_ |-> 0, last_seg_ |-> 0,
                     fatal |-> "LOCAL_RR requires every node to be Compute and Memory"]}
     ELSE {[last_mn_ |-> 0, last_seg_ |-> 0, fatal |-> "none"]}

set_policy(policy, t) == set_policy_of(ClusterArgs, policy, t)

\* MnAllocPolicy::get_mn_seg: the <<last_mn_, last_seg_>> it can leave and return
get_mn_seg_of(args, policy, mn, seg) ==
  LET nsegs == args.SEGS_PER_MN
      nmns == args.LAST_MN_ID + 1
  IN IF policy = "GLOBAL-RR"
       THEN {<<IF (seg + 1) % nsegs = 0 THEN (mn + 1) % nmns ELSE mn, (seg + 1) % nsegs>>}
     ELSE IF policy = "LOCAL-RR"
       THEN {<<mn, (seg + 1) % nsegs>>}
     ELSE IF policy = "RAND"
       THEN (0 .. (nmns - 1)) \X (0 .. (nsegs - 1))
     ELSE {<<mn, seg>>}

get_mn_seg(policy, mn, seg) == get_mn_seg_of(ClusterArgs, policy, mn, seg)

\* freelists_[size], an empty vector when nothing was pushed
FreeList(fl, size) == IF size \in DOMAIN fl THEN fl[size] ELSE <<>>

\* the first chunk of free_blocks_ that can hold size, 0 when there is none
RECURSIVE FirstFit(_, _, _)
FirstFit(fb, size, i) ==
  IF i > Len(fb) THEN 0
  ELSE IF fb[i][1] >= size THEN i ELSE FirstFit(fb, size, i + 1)

\* BumpAllocator::try_allocate_local, and one that never finds a block
TryAllocateLocalNever(fl, fb, size) ==
  [ret |-> NullOpt, freelists_ |-> fl, free_blocks_ |-> fb]

\* BumpAllocator::try_allocate_local: [ret, freelists_, free_blocks_]
try_allocate_local(fl, fb, size) ==
  IF size > ALLOC_MED_THRESH
    THEN LET i == FirstFit(fb, size, 1)
         IN IF i # 0
              THEN [ret |-> fb[i][2] + HEADER_SIZE, freelists_ |-> fl,
                    free_blocks_ |-> SubSeq(fb, 1, i - 1) \o SubSeq(fb, i + 1, Len(fb))]
              ELSE [ret |-> NullOpt, freelists_ |-> fl, free_blocks_ |-> fb]
    ELSE LET freelist == FreeList(fl, size)
         IN IF freelist # <<>>
              THEN [ret |-> freelist[Len(freelist)] + HEADER_SIZE,
                    freelists_ |-> MapPut(fl, size, SubSeq(freelist, 1, Len(freelist) - 1)),
                    free_blocks_ |-> fb]
              ELSE [ret |-> NullOpt, freelists_ |-> fl, free_blocks_ |-> fb]

\* BumpAllocator::reclaim(ptr, size): [freelists_, free_blocks_]
reclaim(fl, fb, ptr, size) ==
  LET slabclass == calculate_slabclass(size)
  IN IF slabclass > ALLOC_MED_THRESH
       THEN [freelists_ |-> fl,
             free_blocks_ |-> Append(fb, <<slabclass, ptr - HEADER_SIZE>>)]
       ELSE [freelists_ |-> MapPut(fl, slabclass,
                                   Append(FreeList(fl, slabclass), ptr - HEADER_SIZE)),
             free_blocks_ |-> fb]

\* IBV_WR_ATOMIC_FETCH_AND_ADD on allocated_: the old value, and the new one
NicFetchAndAddNone(word, add) == [prev |-> word, word |-> word]

NicFetchAndAdd(word, add) == [prev |-> word, word |-> word + add]

\* offset + size > seg_size_ is false
FitsAlways(offset, size) == TRUE

FitsSegment(offset, size) == offset + size <= seg_size_

\* the same test against the segment size of the arguments args
FitsSegmentOf(args, offset, size) == offset + size <= 2 ^ args.SEG_SIZE

NoAlloc ==
  [op |-> "none", size |-> 0, path |-> "none", before |-> 0, after |-> 0]

NoEntry == [s \in Segs |-> 0]

alloc_Init ==
  /\ allocated_ = [s \in Segs |-> ControlBlockSize]
  /\ header_size_ = EmptyMap
  /\ hint_ = [c \in AllocNodes |-> [s \in Segs |-> ControlBlockSize]]
  /\ alloc_pol = "unset"
  /\ policy_ = [t \in AllocThreads |-> "NONE"]
  /\ last_mn_ = [t \in AllocThreads |-> 0]
  /\ last_seg_ = [t \in AllocThreads |-> 0]
  /\ freelists_ = [t \in AllocThreads |-> EmptyMap]
  /\ free_blocks_ = [t \in AllocThreads |-> <<>>]
  /\ al_pc = [t \in AllocThreads |-> "unborn"]
  /\ al_size = [t \in AllocThreads |-> 0]
  /\ al_seg = [t \in AllocThreads |-> <<0, 0>>]
  /\ al_offset = [t \in AllocThreads |-> 0]
  /\ al_entry = [t \in AllocThreads |-> NoEntry]
  /\ al_calls = 0
  /\ al_live = {}
  /\ al_last = NoAlloc

\* ComputeThread::ComputeThread, as far as the allocator goes: the policy is set from
\* --alloc-pol, which is the same on every node
al_new_thread(t, pol) ==
  /\ fatal = "none"
  /\ al_pc[t] = "unborn"
  /\ alloc_pol \in {"unset", pol}
  /\ alloc_pol' = pol
  /\ \E p \in set_policy(pol, t) :
       /\ fatal' = p.fatal
       /\ policy_' = [policy_ EXCEPT ![t] = pol]
       /\ last_mn_' = [last_mn_ EXCEPT ![t] = p.last_mn_]
       /\ last_seg_' = [last_seg_ EXCEPT ![t] = p.last_seg_]
  /\ al_pc' = [al_pc EXCEPT ![t] = "idle"]
  /\ UNCHANGED <<allocated_, header_size_, hint_, freelists_, free_blocks_, al_size,
                 al_seg, al_offset, al_entry, al_calls, al_live, al_last>>

\* ComputeThread::allocate<uint64_t>(n) up to the call of try_allocate_global: a block
\* of the thread's free lists is returned at once
al_allocate(t, n) ==
  /\ fatal = "none"
  /\ al_pc[t] = "idle"
  /\ al_calls < MaxAllocCalls
  /\ al_calls' = al_calls + 1
  /\ \E size \in {compute_size(WordBytes, n)} :
     \E local \in {try_allocate_local(freelists_[t], free_blocks_[t], size)} :
       /\ freelists_' = [freelists_ EXCEPT ![t] = local.freelists_]
       /\ free_blocks_' = [free_blocks_ EXCEPT ![t] = local.free_blocks_]
       /\ IF local.ret # NullOpt
            THEN /\ al_live' = al_live \cup {<<local.ret, t>>}
                 /\ al_last' = [op |-> "allocate", size |-> size,
                                path |-> "local",
                                before |-> allocated_[SegOf(local.ret)],
                                after |-> allocated_[SegOf(local.ret)]]
                 /\ UNCHANGED <<al_pc, al_size, al_entry>>
            ELSE /\ al_pc' = [al_pc EXCEPT ![t] = "pick"]
                 /\ al_size' = [al_size EXCEPT ![t] = size]
                 /\ al_entry' = [al_entry EXCEPT ![t] = allocated_]
                 /\ UNCHANGED <<al_live, al_last>>
  /\ UNCHANGED <<fatal, allocated_, header_size_, hint_, alloc_pol, policy_, last_mn_,
                 last_seg_, al_seg, al_offset>>

\* try_allocate_global, the head of one iteration: the policy names a segment, and the
\* iteration ends there when the node's hint says the segment is too full
al_pick(t) ==
  /\ fatal = "none"
  /\ al_pc[t] = "pick"
  /\ \E ms \in get_mn_seg(policy_[t], last_mn_[t], last_seg_[t]) :
       /\ last_mn_' = [last_mn_ EXCEPT ![t] = ms[1]]
       /\ last_seg_' = [last_seg_ EXCEPT ![t] = ms[2]]
       /\ al_seg' = [al_seg EXCEPT ![t] = ms]
       /\ al_pc' = [al_pc EXCEPT ![t] =
                      IF hint_[t[1]][ms] + al_size[t] > seg_size_ THEN "pick" ELSE "faa"]
  /\ UNCHANGED <<fatal, allocated_, header_size_, hint_, alloc_pol, policy_, freelists_,
                 free_blocks_, al_size, al_offset, al_entry, al_calls, al_live, al_last>>

\* try_allocate_global: the fetch-and-add on allocated_ and the test of what it returned
al_faa(t) ==
  /\ fatal = "none"
  /\ al_pc[t] = "faa"
  /\ allocated_[al_seg[t]] + al_size[t] <= MaxAllocated
  /\ \E f \in {NicFetchAndAdd(allocated_[al_seg[t]], al_size[t])} :
       /\ allocated_' = [allocated_ EXCEPT ![al_seg[t]] = f.word]
       /\ al_offset' = [al_offset EXCEPT ![t] = f.prev]
       /\ al_pc' = [al_pc EXCEPT ![t] =
                      IF FitsSegment(f.prev, al_size[t]) THEN "fresh" ELSE "pick"]
  /\ UNCHANGED <<fatal, header_size_, hint_, alloc_pol, policy_, last_mn_, last_seg_,
                 freelists_, free_blocks_, al_size, al_seg, al_entry, al_calls, al_live,
                 al_last>>

\* try_allocate_global after a fetch-and-add that fits: the hint is raised, the header
\* is written, and allocate returns the address past the header
al_fresh(t) ==
  /\ fatal = "none"
  /\ al_pc[t] = "fresh"
  /\ \E ptr \in {get_seg_start(al_seg[t][1], al_seg[t][2]) + al_offset[t]} :
       /\ hint_' = [hint_ EXCEPT ![t[1]][al_seg[t]] =
                      IF @ <= al_offset[t] + al_size[t]
                        THEN al_offset[t] + al_size[t] ELSE @]
       /\ header_size_' = MapPut(header_size_, ptr, al_size[t])
       /\ al_live' = al_live \cup {<<ptr + HEADER_SIZE, t>>}
       /\ al_last' = [op |-> "allocate", size |-> al_size[t],
                      path |-> "global",
                      before |-> al_entry[t][al_seg[t]],
                      after |-> allocated_[al_seg[t]]]
  /\ al_pc' = [al_pc EXCEPT ![t] = "idle"]
  /\ al_size' = [al_size EXCEPT ![t] = 0]
  /\ al_offset' = [al_offset EXCEPT ![t] = 0]
  /\ al_entry' = [al_entry EXCEPT ![t] = NoEntry]
  /\ UNCHANGED <<fatal, allocated_, alloc_pol, policy_, last_mn_, last_seg_, freelists_,
                 free_blocks_, al_seg, al_calls>>

\* ComputeThread::deallocate(ptr) by the thread that holds the block: the size is read
\* from the header and the block goes to the thread's free lists
al_deallocate(t, ptr) ==
  /\ fatal = "none"
  /\ al_pc[t] = "idle"
  /\ <<ptr, t>> \in al_live
  /\ \E r \in {reclaim(freelists_[t], free_blocks_[t], ptr,
                       header_size_[ptr - HEADER_SIZE])} :
       /\ freelists_' = [freelists_ EXCEPT ![t] = r.freelists_]
       /\ free_blocks_' = [free_blocks_ EXCEPT ![t] = r.free_blocks_]
  /\ al_live' = al_live \ {<<ptr, t>>}
  /\ al_last' = [NoAlloc EXCEPT !.op = "deallocate"]
  /\ UNCHANGED <<fatal, allocated_, header_size_, hint_, alloc_pol, policy_, last_mn_,
                 last_seg_, al_pc, al_size, al_seg, al_offset, al_entry, al_calls>>

-----------------------------------------------------------------------------
(* Allocator saturation: one process that is memory node 0 and compute node 0, with *)
(* one thread that calls allocate<uint8_t>(n) again and again and gives nothing     *)
(* back, so that try_allocate_local never finds a block.                            *)

\* the arguments of the scenario: --seg-size 20 --segs-per-mn 2, node 0 only
SatArgs ==
  [FIRST_MN_ID |-> 0, LAST_MN_ID |-> 0, FIRST_CN_ID |-> 0, LAST_CN_ID |-> 0,
   CN_THREADS |-> 1, SEGS_PER_MN |-> 2, SEG_SIZE |-> 20]

\* the thread, as <<node id, thread id>>
SatThread == <<0, 0>>

SatSegs == 0 .. (SatArgs.SEGS_PER_MN - 1)

\* the --alloc-pol values of the scenario
SatPolicies == {"GLOBAL-RR", "GLOBAL-MOD"}

\* the n of allocate<uint8_t>(n): 1 KiB of payload, and 1 KiB with the header
SatBytes == {1024, 1024 - HEADER_SIZE}

\* the node's hints say that no segment can hold size more bytes
SatHintsFull(size) == \A s \in SatSegs : sat_hint_[s] + size > 2 ^ SatArgs.SEG_SIZE

sat_Init ==
  /\ sat_allocated_ = [s \in SatSegs |-> ControlBlockSize]
  /\ sat_hint_ = [s \in SatSegs |-> ControlBlockSize]
  /\ sat_policy_ = "NONE"
  /\ sat_last_mn_ = 0
  /\ sat_last_seg_ = 0
  /\ sat_pc = "unborn"
  /\ sat_size = 0
  /\ sat_seg = <<0, 0>>
  /\ sat_offset = 0
  /\ sat_bytes = 0
  /\ sat_given = 0

\* ComputeThread::ComputeThread: the policy is set from --alloc-pol
sat_new_thread(pol, bytes) ==
  /\ fatal = "none"
  /\ sat_pc = "unborn"
  /\ \E p \in set_policy_of(SatArgs, pol, SatThread) :
       /\ fatal' = p.fatal
       /\ sat_policy_' = pol
       /\ sat_last_mn_' = p.last_mn_
       /\ sat_last_seg_' = p.last_seg_
  /\ sat_pc' = "idle"
  /\ sat_bytes' = bytes
  /\ UNCHANGED <<sat_allocated_, sat_hint_, sat_size, sat_seg, sat_offset, sat_given>>

\* ComputeThread::allocate<uint8_t>(sat_bytes) up to the call of try_allocate_global
sat_allocate ==
  /\ fatal = "none"
  /\ sat_pc = "idle"
  /\ sat_size' = compute_size(1, sat_bytes)
  /\ sat_pc' = "pick"
  /\ UNCHANGED <<fatal, sat_allocated_, sat_hint_, sat_policy_, sat_last_mn_,
                 sat_last_seg_, sat_seg, sat_offset, sat_bytes, sat_given>>

\* try_allocate_global, the head of one iteration
sat_pick ==
  /\ fatal = "none"
  /\ sat_pc = "pick"
  /\ \E ms \in get_mn_seg_of(SatArgs, sat_policy_, sat_last_mn_, sat_last_seg_) :
       /\ sat_last_mn_' = ms[1]
       /\ sat_last_seg_' = ms[2]
       /\ sat_seg' = ms
       /\ sat_pc' = IF sat_hint_[ms[2]] + sat_size > 2 ^ SatArgs.SEG_SIZE
                      THEN "pick" ELSE "faa"
  /\ UNCHANGED <<fatal, sat_allocated_, sat_hint_, sat_policy_, sat_size, sat_offset,
                 sat_bytes, sat_given>>

\* try_allocate_global: the fetch-and-add on allocated_ and the test of what it returned
sat_faa ==
  /\ fatal = "none"
  /\ sat_pc = "faa"
  /\ \E f \in {NicFetchAndAdd(sat_allocated_[sat_seg[2]], sat_size)} :
       /\ sat_allocated_' = [sat_allocated_ EXCEPT ![sat_seg[2]] = f.word]
       /\ sat_offset' = f.prev
       /\ sat_pc' = IF FitsSegmentOf(SatArgs, f.prev, sat_size) THEN "fresh" ELSE "pick"
  /\ UNCHANGED <<fatal, sat_hint_, sat_policy_, sat_last_mn_, sat_last_seg_, sat_size,
                 sat_seg, sat_bytes, sat_given>>

\* try_allocate_global after a fetch-and-add that fits: the hint is raised, the header
\* is written, and allocate returns
sat_fresh ==
  /\ fatal = "none"
  /\ sat_pc = "fresh"
  /\ sat_hint_' = [sat_hint_ EXCEPT ![sat_seg[2]] =
                     IF @ <= sat_offset + sat_size THEN sat_offset + sat_size ELSE @]
  /\ sat_given' = sat_given + 1
  /\ sat_pc' = "idle"
  /\ sat_size' = 0
  /\ sat_offset' = 0
  /\ UNCHANGED <<fatal, sat_allocated_, sat_policy_, sat_last_mn_, sat_last_seg_, sat_seg,
                 sat_bytes>>
-----------------------------------------------------------------------------
(* Shutdown of a cluster: every ~ComputeThread adds one to control_flag_ of segment 0 *)
(* of the memory nodes, and ~MemoryNode waits for control_flag_ of its own segment 0  *)
(* to reach the number of compute threads.  The threads have given back all they held *)
(* (no_leak_detected passes), and a destructor is one step.                           *)

\* the node ids of the clusters
SdNodes == 0 .. 2

\* <<first, last>> of the memory node ids and of the compute node ids
SdMnRanges == {<<0, 0>>, <<0, 1>>, <<1, 1>>, <<1, 2>>}

SdCnRanges == {<<0, 0>>, <<0, 1>>, <<1, 2>>}

\* the values of --cn-threads
SdCnThreads == {1, 2}

\* 2 memory nodes, 2 compute nodes, 4 threads each
SdGraceful ==
  [FIRST_MN_ID |-> 0, LAST_MN_ID |-> 1, FIRST_CN_ID |-> 0, LAST_CN_ID |-> 1,
   CN_THREADS |-> 4]

SdConfigs ==
  {[FIRST_MN_ID |-> mr[1], LAST_MN_ID |-> mr[2], FIRST_CN_ID |-> cr[1],
    LAST_CN_ID |-> cr[2], CN_THREADS |-> k] :
     mr \in SdMnRanges, cr \in SdCnRanges, k \in SdCnThreads} \cup {SdGraceful}

SdMemNodes(args) == args.FIRST_MN_ID .. args.LAST_MN_ID

SdComputeNodes(args) == args.FIRST_CN_ID .. args.LAST_CN_ID

SdThreads(args) == SdComputeNodes(args) \X (0 .. (args.CN_THREADS - 1))

\* MemoryNode::total_threads_
total_threads_(args) == args.CN_THREADS * (args.LAST_CN_ID - args.FIRST_CN_ID + 1)

\* what ends a process that reads segs_[i][0] where segs_[i] is empty
SdNoSegment == "get_seg_start: segs_[mn_id] has no segment"

\* the loop of ~ComputeThread from index i on, under the arguments args:
\* FetchAndAdd(control_flag, 1) at get_seg_start(i, 0).  segs_ has the keys
\* FIRST_MN_ID .. LAST_MN_ID, so for another i the call reads element 0 of an empty
\* vector: the process ends, or the value read sends the fetch-and-add to the
\* control_flag_ of some memory node, or to a word that is no control_flag_.
\* The set of [control_flag_, sent, fatal] the loop can end with.
RECURSIVE sd_send_shutdown(_, _, _, _)
sd_send_shutdown(args, flags, sent, i) ==
  IF i >= args.LAST_MN_ID - args.FIRST_MN_ID + 1
    THEN {[control_flag_ |-> flags, sent |-> sent, fatal |-> "none"]}
  ELSE IF i \in SdMemNodes(args)
    THEN sd_send_shutdown(args, [flags EXCEPT ![i] = @ + 1],
                          [sent EXCEPT ![i] = @ + 1], i + 1)
  ELSE {[control_flag_ |-> flags, sent |-> sent, fatal |-> SdNoSegment]}
         \cup sd_send_shutdown(args, flags, sent, i + 1)
         \cup UNION {sd_send_shutdown(args, [flags EXCEPT ![m] = @ + 1],
                                      [sent EXCEPT ![m] = @ + 1], i + 1) :
                       m \in SdMemNodes(args)}

SdNoDrop == [t |-> <<0, 0>>, sent |-> <<>>, fatal |-> "none", dropped |-> FALSE]

\* the cluster under the arguments args, before any destructor
sd_InitWith(args) ==
  /\ sd_args = args
  /\ sd_control_flag_ = [m \in SdMemNodes(sd_args) |-> 0]
  /\ sd_thread = [t \in SdThreads(sd_args) |-> "live"]
  /\ sd_proc = [n \in SdNodes |-> "up"]
  /\ sd_mn = [m \in SdMemNodes(sd_args) |-> "up"]
  /\ sd_last = SdNoDrop

sd_Init == sd_InitWith(SdGraceful)

\* ComputeThread::~ComputeThread of thread t = <<node id, thread id>>
sd_drop(t) ==
  /\ sd_proc[t[1]] = "up"
  /\ sd_thread[t] = "live"
  /\ \E d \in sd_send_shutdown(sd_args, sd_control_flag_,
                               [m \in SdMemNodes(sd_args) |-> 0], 0) :
       /\ sd_control_flag_' = d.control_flag_
       /\ sd_proc' = IF d.fatal = "none" THEN sd_proc
                     ELSE [sd_proc EXCEPT ![t[1]] = d.fatal]
       /\ sd_thread' = IF d.fatal = "none" THEN [sd_thread EXCEPT ![t] = "dropped"]
                       ELSE sd_thread
       /\ sd_last' = [t |-> t, sent |-> d.sent, fatal |-> d.fatal, dropped |-> TRUE]
  /\ UNCHANGED <<sd_args, sd_mn>>

\* MemoryNode::~MemoryNode is entered
sd_mn_destroy(m) ==
  /\ sd_proc[m] = "up"
  /\ sd_mn[m] = "up"
  /\ sd_mn' = [sd_mn EXCEPT ![m] = "waiting"]
  /\ UNCHANGED <<sd_args, sd_control_flag_, sd_thread, sd_proc, sd_last>>

\* the test that ends the loop of ~MemoryNode, and one that always ends it
MnFlagReachedAlways(flag, total) == TRUE

MnFlagReached(flag, total) == ~(flag # total)

\* MemoryNode::~MemoryNode, one test of its loop: it yields while control_flag_ is not
\* total_threads_, and goes on to tear the node down when it is
sd_mn_wait(m) ==
  /\ sd_proc[m] = "up"
  /\ sd_mn[m] = "waiting"
  /\ sd_mn' = [sd_mn EXCEPT ![m] =
                 IF MnFlagReached(sd_control_flag_[m], total_threads_(sd_args))
                   THEN "down" ELSE "waiting"]
  /\ UNCHANGED <<sd_args, sd_control_flag_, sd_thread, sd_proc, sd_last>>
-----------------------------------------------------------------------------
(* MemoryNode: the listener thread (handle_connections, on_connect) of one memory   *)
(* node, and the compute nodes that connect to it as connect_remote does: qp_lanes  *)
(* blocking connects each, to a memory node that is not the compute node itself.    *)

LsCnRanges == {<<0, 0>>, <<0, 1>>, <<1, 2>>}

\* the ids of the memory node
LsNodeIds == {0, 1}

\* the values of --qp-lanes
LsQpLanes == {1, 2}

\* how many connect requests with the node's own id the network delivers, at most
MaxStrays == 1

LsConfigs ==
  {[NODE_ID |-> id, FIRST_CN_ID |-> cr[1], LAST_CN_ID |-> cr[2], QP_LANES |-> q] :
     id \in LsNodeIds, cr \in LsCnRanges, q \in LsQpLanes}

LsComputeNodes(args) == args.FIRST_CN_ID .. args.LAST_CN_ID

\* remaining_conns_ as MemoryNode::MemoryNode computes it
initial_remaining_conns(args) ==
  LET c0 == args.FIRST_CN_ID
      cn == args.LAST_CN_ID
      cns == cn - c0 + 1
  IN (IF args.NODE_ID >= c0 /\ args.NODE_ID <= cn THEN cns - 1 ELSE cns) * args.QP_LANES

\* the test of the loop of handle_connections, and one that ends the loop one early
ListenerGoesOnShort(remaining) == remaining > 1

ListenerGoesOn(remaining) == remaining > 0

LsNoEvent == [event |-> "none", machine_id |-> 0, remaining |-> 0, conns |-> 0]

\* the memory node under the arguments args, listening
ls_InitWith(args) ==
  /\ ls_args = args
  /\ remaining_conns_ = initial_remaining_conns(ls_args)
  /\ conns_ = <<>>
  /\ ls_state = "listening"
  /\ ls_events = <<>>
  /\ ls_connects = [c \in LsComputeNodes(ls_args) |-> 0]
  /\ ls_strays = 0
  /\ ls_last = LsNoEvent

\* memory node 0 of two compute nodes 0 and 1, one lane
LsTwoNodes == [NODE_ID |-> 0, FIRST_CN_ID |-> 0, LAST_CN_ID |-> 1, QP_LANES |-> 1]

ls_Init == ls_InitWith(LsTwoNodes)

\* the connect requests of compute node c that the listener has not answered
LsUnanswered(c) ==
  \E i \in 1 .. Len(ls_events) :
    ls_events[i] = [event |-> "CONNECT_REQUEST", machine_id |-> c]

\* ComputeNode::connect_remote of compute node c, one rdma_connect to this memory node
ls_connect(c) ==
  /\ fatal = "none"
  /\ c # ls_args.NODE_ID
  /\ ls_connects[c] < ls_args.QP_LANES
  /\ ~LsUnanswered(c)
  /\ ls_connects' = [ls_connects EXCEPT ![c] = @ + 1]
  /\ ls_events' = Append(ls_events, [event |-> "CONNECT_REQUEST", machine_id |-> c])
  /\ UNCHANGED <<fatal, ls_args, remaining_conns_, conns_, ls_state, ls_strays, ls_last>>

\* a connect request whose private data is the memory node's own id arrives
ls_stray_connect ==
  /\ fatal = "none"
  /\ ls_state = "listening"
  /\ ls_strays < MaxStrays
  /\ ls_strays' = ls_strays + 1
  /\ ls_events' = Append(ls_events, [event |-> "CONNECT_REQUEST",
                                     machine_id |-> ls_args.NODE_ID])
  /\ UNCHANGED <<fatal, ls_args, remaining_conns_, conns_, ls_state, ls_connects, ls_last>>

\* MemoryNode::on_connect for the request of machine_id: [fatal, conns_, remaining_conns_]
on_connect(machine_id, self_id, conns, remaining) ==
  IF machine_id = self_id
    THEN [fatal |-> "on_connect called for self-connection", conns_ |-> conns,
          remaining_conns_ |-> remaining, established |-> FALSE]
    ELSE [fatal |-> "none", conns_ |-> Append(conns, machine_id),
          remaining_conns_ |-> remaining - 1, established |-> TRUE]

\* MemoryNode::handle_connections, one test of the loop and, when it goes on and an
\* event is there, the handling of that event (with none, the thread yields)
ls_handle ==
  /\ fatal = "none"
  /\ ls_state = "listening"
  /\ IF ~ListenerGoesOn(remaining_conns_)
       THEN /\ ls_state' = "returned"
            /\ UNCHANGED <<fatal, remaining_conns_, conns_, ls_events, ls_last>>
     ELSE IF ls_events = <<>>
       THEN UNCHANGED <<fatal, remaining_conns_, conns_, ls_state, ls_events, ls_last>>
     ELSE LET e == Head(ls_events)
          IN /\ ls_last' = [event |-> e.event, machine_id |-> e.machine_id,
                            remaining |-> remaining_conns_, conns |-> Len(conns_)]
             /\ ls_state' = ls_state
             /\ IF e.event = "CONNECT_REQUEST"
                  THEN \E r \in {on_connect(e.machine_id, ls_args.NODE_ID, conns_,
                                            remaining_conns_)} :
                         /\ fatal' = r.fatal
                         /\ conns_' = r.conns_
                         /\ remaining_conns_' = r.remaining_conns_
                         /\ ls_events' =
                              IF r.established
                                THEN Append(Tail(ls_events),
                                            [event |-> "ESTABLISHED",
                                             machine_id |-> e.machine_id])
                                ELSE Tail(ls_events)
                  ELSE /\ ls_events' = Tail(ls_events)
                       /\ UNCHANGED <<fatal, remaining_conns_, conns_>>
  /\ UNCHANGED <<ls_args, ls_connects, ls_strays>>
-----------------------------------------------------------------------------
(* ComputeNode::register_thread, called by the constructors of the compute threads of *)
(* one compute node, concurrently.                                                   *)

\* how many threads call register_thread
MaxRegCalls == 4

RegCallers == 1 .. MaxRegCalls

\* ComputeNode::num_threads_, thread_bufsz_
num_threads_ == CN_THREADS

thread_bufsz_ == 2 ^ CN_THREAD_BUFSZ

\* seg_.raw() and the size of seg_, the power of two that holds every thread's slice
seg_raw == 2 ^ CN_THREAD_BUFSZ

RECURSIVE NextPow2From(_, _)
NextPow2From(p, n) == IF p >= n THEN p ELSE NextPow2From(2 * p, n)

seg_capacity == NextPow2From(1, num_threads_ * thread_bufsz_)

\* res of register_thread, and one that takes half the slice
RegisterSliceHalf(id) == seg_raw + (id * (thread_bufsz_ \div 2))

RegisterSlice(id) == seg_raw + (id * thread_bufsz_)

reg_Init ==
  /\ threads_ = 0
  /\ reg_pc = [t \in RegCallers |-> "idle"]
  /\ reg_id = [t \in RegCallers |-> 0]
  /\ reg_res = [t \in RegCallers |-> NullPtr]

\* register_thread: id = threads_++
reg_fetch(t) ==
  /\ fatal = "none"
  /\ reg_pc[t] = "idle"
  /\ reg_id' = [reg_id EXCEPT ![t] = threads_]
  /\ threads_' = threads_ + 1
  /\ reg_pc' = [reg_pc EXCEPT ![t] = "fetched"]
  /\ UNCHANGED <<fatal, reg_res>>

\* register_thread: the test of id and the return of {id, res}
reg_return(t) ==
  /\ fatal = "none"
  /\ reg_pc[t] = "fetched"
  /\ IF reg_id[t] >= num_threads_
       THEN /\ fatal' = "register_thread produced thread # when only # are supported"
            /\ UNCHANGED <<reg_pc, reg_res>>
       ELSE /\ reg_res' = [reg_res EXCEPT ![t] = RegisterSlice(reg_id[t])]
            /\ reg_pc' = [reg_pc EXCEPT ![t] = "returned"]
            /\ UNCHANGED fatal
  /\ UNCHANGED <<threads_, reg_id>>
-----------------------------------------------------------------------------
(* ComputeThread::Lane: the threads of one compute node start operations on one lane *)
(* and complete them; every operation holds a Lane object from its start to its     *)
(* completion.                                                                       *)

\* the lane
LnLane == 0

ln_Init ==
  /\ ln_op_counters = [l \in {LnLane} |-> 0]
  /\ ln_last = [op |-> "none", before |-> 0]

\* an operation starts on the lane: Lane::Lane
ln_start ==
  /\ fatal = "none"
  /\ \E r \in {LaneEnter([fatal |-> fatal, lane_op_counters_ |-> ln_op_counters], LnLane)} :
       /\ fatal' = r.fatal
       /\ ln_op_counters' = r.lane_op_counters_
  /\ ln_last' = [op |-> "Lane", before |-> ln_op_counters[LnLane]]

\* an operation of the lane is completed and dropped: Lane::~Lane
ln_complete ==
  /\ fatal = "none"
  /\ ln_op_counters[LnLane] > 0
  /\ \E r \in {LaneLeave([fatal |-> fatal, lane_op_counters_ |-> ln_op_counters], LnLane)} :
       ln_op_counters' = r.lane_op_counters_
  /\ ln_last' = [op |-> "~Lane", before |-> ln_op_counters[LnLane]]
  /\ UNCHANGED fatal
-----------------------------------------------------------------------------
(* SimpleAsyncComputeThread::ReadAsync: the coroutines of one thread, each running one *)
(* asynchronous read at a time on one connection.  The model follows what an          *)
(* operation holds (its lane slot, its completion counter, its staging chunk), the    *)
(* work requests and completions of the connection, and the bytes of the staging ring.*)

\* the coroutines of the thread: one more than the thread has completion counters
AsCoros == 0 .. CN_OPS_PER_THREAD

\* how many ReadAsync calls the thread makes, at most
MaxAsyncCalls == 4

AsIdle == [state |-> "none", counter |-> NullOpt, staging_buf |-> NullPtr,
           lane |-> NullOpt, size |-> 0,
           wr_done |-> FALSE, fetched |-> <<>>, value |-> <<>>]

\* history of a PollAsync call on counter ack of the connection k, which left kp
AsNoPoll == [called |-> FALSE, ack |-> 0, before |-> 0, after |-> 0, ret |-> FALSE]

AsPolled(k, kp, ack) ==
  IF kp.fatal # "none" THEN AsNoPoll
  ELSE [called |-> TRUE, ack |-> ack, before |-> k.op_counters_[ack],
        after |-> kp.op_counters_[ack], ret |-> kp.ret]

as_Init ==
  /\ as_ops = [c \in AsCoros |-> AsIdle]
  /\ as_last = [op |-> "none", c |-> 0, uncompleted |-> 0]
  /\ op_counters_ = [i \in 0 .. (CN_OPS_PER_THREAD - 1) |-> 0]
  /\ send_queue = <<>>
  /\ completion_queue = <<>>
  /\ staging_mem = [a \in staging_buf_ .. (staging_buf_ + staging_buf_size_ - 1) |-> 0]
  /\ as_calls = 0
  /\ as_poll = AsNoPoll

\* the coroutines whose operation is posted and has not returned
AsUncompleted == {c \in AsCoros : as_ops[c].state = "posted"}

\* what ReadAsync does to the thread's resources up to its first suspension: the Lane is
\* a local of the coroutine; op_counter_t(this).val() and staging_buf_t(...).val() are
\* taken from temporaries, which are destroyed at the end of their statement
AsyncResources(r, lane, size, align) ==
  LET r1 == OpCounterTake(LaneEnter(r, lane))
      r2 == OpCounterGive(r1, r1.idx)
      r3 == StagingTake(r2, size, align)
  IN StagingGive(r3, r3.buf)

\* the connection and what the coroutines see of it
AsConn ==
  [ops |-> as_ops, op_counters_ |-> op_counters_, send_queue |-> send_queue,
   completion_queue |-> completion_queue, staging_mem |-> staging_mem,
   ret |-> FALSE, fatal |-> "none"]

ApplyConn(k) ==
  /\ as_ops' = k.ops
  /\ op_counters_' = k.op_counters_
  /\ send_queue' = k.send_queue
  /\ completion_queue' = k.completion_queue
  /\ staging_mem' = k.staging_mem

StagingStore(st, addr, v) ==
  [a \in DOMAIN st |-> IF a >= addr /\ a < addr + Len(v) THEN v[a - addr + 1] ELSE st[a]]

StagingLoad(st, addr, sz) == [i \in 1 .. sz |-> st[addr + i - 1]]

\* the adapter executes the first work request of the send queue: an RDMA read of m
\* into the local address of the request, and a completion carrying its wr_id
NicExecute(k, m) ==
  LET wr == Head(k.send_queue)
      v == MemLoad(m, wr.n, wr.off, wr.length)
  IN [k EXCEPT !.send_queue = Tail(@),
               !.completion_queue = Append(@, [wr_id |-> wr.wr_id]),
               !.staging_mem = StagingStore(@, wr.addr, v),
               !.ops = IF wr.c = NullOpt THEN @
                       ELSE [@ EXCEPT ![wr.c].wr_done = TRUE, ![wr.c].fetched = v]]

RECURSIVE NicDrain(_, _)
NicDrain(k, m) == IF k.send_queue = <<>> THEN k ELSE NicDrain(NicExecute(k, m), m)

\* internal::ReadConfig and internal::Post for coroutine c
Post(k, c, n, off, sz, staging_buf, counter) ==
  [k EXCEPT !.op_counters_[counter] = 1,
            !.send_queue = Append(@, [wr_id |-> counter, addr |-> staging_buf, n |-> n,
                                      off |-> off, length |-> sz, c |-> c])]

\* PollAsync returning true from the call that takes the last completion
PollAsyncAtReturn(k, ack) ==
  IF k.op_counters_[ack] # 0 /\ k.completion_queue # <<>>
    THEN LET wc == Head(k.completion_queue)
             old == k.op_counters_[wc.wr_id]
         IN [k EXCEPT !.completion_queue = Tail(@),
                      !.op_counters_[wc.wr_id] = old - 1,
                      !.fatal = IF old >= 1 THEN "none" ELSE "Broken synchronization",
                      !.ret = (wc.wr_id = ack /\ old = 1)]
    ELSE [k EXCEPT !.ret = (k.op_counters_[ack] = 0)]

\* internal::PollAsync(conn, ack, ptr); ret is what it returns
PollAsync(k, ack) ==
  IF k.op_counters_[ack] # 0
    THEN IF k.completion_queue = <<>> THEN [k EXCEPT !.ret = FALSE]
         ELSE LET wc == Head(k.completion_queue)
                  old == k.op_counters_[wc.wr_id]
              IN [k EXCEPT !.completion_queue = Tail(@),
                           !.op_counters_[wc.wr_id] = old - 1,
                           !.fatal = IF old >= 1 THEN "none" ELSE "Broken synchronization",
                           !.ret = FALSE]
    ELSE [k EXCEPT !.ret = TRUE]

\* one turn of the loop while (!PollAsync(...)) co_yield, and co_return *(T *)staging_buf
\* when the poll says the counter is zero
AsPollOrReturn(k, c) ==
  LET p == PollAsync(k, k.ops[c].counter)
  IN IF p.fatal = "none" /\ p.ret
       THEN [p EXCEPT !.ops[c].state = "done",
                      !.ops[c].value = StagingLoad(p.staging_mem, p.ops[c].staging_buf,
                                                   p.ops[c].size)]
       ELSE p

\* AsyncResult<T> ReadAsync(ptr, fence) of coroutine c for the pointer (n, off) and
\* sizeof(T) = sz, run to its first co_yield (initial_suspend is suspend_never); the
\* adapter may or may not have executed the send queue by the time of the first poll
as_ReadAsync(c, n, off, sz, nic) ==
  /\ fatal = "none" /\ ct_state = "live"
  /\ as_ops[c].state = "none"
  /\ as_calls < MaxAsyncCalls
  /\ as_calls' = as_calls + 1
  /\ \E r \in {AsyncResources(CtRes, get_lane_idx(n), sz, sz)} :
       IF r.fatal # "none"
         THEN ApplyRes(r) /\ UNCHANGED <<as_ops, op_counters_, send_queue,
                                         completion_queue, staging_mem, as_poll>>
         ELSE LET k0 == [AsConn EXCEPT !.ops[c] =
                           [AsIdle EXCEPT !.state = "posted", !.counter = r.idx,
                                          !.staging_buf = r.buf, !.size = sz,
                                          !.lane = get_lane_idx(n)]]
                  k1 == Post(k0, c, n, off, sz, r.buf, r.idx)
                  k2 == IF nic THEN NicDrain(k1, mem) ELSE k1
                  k3 == AsPollOrReturn(k2, c)
              IN /\ ApplyConn(k3)
                 /\ as_poll' = AsPolled(k2, k3, r.idx)
                 /\ ApplyRes([r EXCEPT !.fatal = k3.fatal])
  /\ as_last' = [op |-> "ReadAsync", c |-> c, uncompleted |-> Cardinality(AsUncompleted)]
  /\ UNCHANGED <<ct_state, ct_last, wr_pending>>

\* the adapter executes one work request
as_nic ==
  /\ fatal = "none"
  /\ send_queue # <<>>
  /\ ApplyConn(NicExecute(AsConn, mem))
  /\ UNCHANGED <<fatal, ctVars, as_last, as_calls, as_poll>>

\* AsyncResult::resume of a coroutine suspended in the loop: one more PollAsync, and
\* co_return when it says true, which destroys the coroutine's locals, the Lane among
\* them
as_resume(c) ==
  /\ fatal = "none" /\ ct_state = "live"
  /\ as_ops[c].state = "posted"
  /\ \E k \in {AsPollOrReturn(AsConn, c)} :
       /\ ApplyConn(k)
       /\ as_poll' = AsPolled(AsConn, k, as_ops[c].counter)
       /\ \E r \in {IF k.ops[c].state = "done" THEN LaneLeave(CtRes, as_ops[c].lane)
                    ELSE CtRes} :
            ApplyRes([r EXCEPT !.fatal = k.fatal])
  /\ UNCHANGED <<as_last, as_calls, ct_state, ct_last, wr_pending>>

\* what handle.resume() does to a coroutine suspended at its final suspend point, which
\* the language leaves undefined
AsResumeDoneOutcomes == {"no effect", "crash"}

\* AsyncResult::resume of a coroutine that has returned: handle.resume() with no test
\* of handle.done()
as_resume_done(c, outcome) ==
  /\ fatal = "none" /\ ct_state = "live"
  /\ as_ops[c].state = "done"
  /\ fatal' = IF outcome = "crash" THEN "resume of a coroutine that is done" ELSE "none"
  /\ UNCHANGED <<ctVars, asVars>>

\* AsyncResult::~AsyncResult: handle.destroy(), which destroys the locals of a coroutine
\* that has not returned; the work request of the operation stays where it is
as_drop(c) ==
  /\ fatal = "none" /\ ct_state = "live"
  /\ as_ops[c].state # "none"
  /\ as_ops' = [as_ops EXCEPT ![c] = AsIdle]
  /\ send_queue' = [i \in DOMAIN send_queue |->
                      IF send_queue[i].c = c THEN [send_queue[i] EXCEPT !.c = NullOpt]
                      ELSE send_queue[i]]
  /\ \E r \in {IF as_ops[c].state = "posted" THEN LaneLeave(CtRes, as_ops[c].lane)
               ELSE CtRes} : ApplyRes(r)
  /\ UNCHANGED <<as_last, as_calls, as_poll, op_counters_, completion_queue, staging_mem,
                 ct_state, ct_last, wr_pending>>
-----------------------------------------------------------------------------
(* The root pointer: the main thread of the first compute node writes it before it   *)
(* starts its worker threads; every worker thread, on every compute node, arrives at *)
(* the barrier and then reads it.  Each compute node runs one worker thread, so the  *)
(* threads of the barrier are the compute nodes' workers.                            *)

\* the compute nodes, one for each thread of the barrier
RtNodes == FIRST_CN_ID .. (FIRST_CN_ID + BarrierThreads - 1)

\* the compute node of a worker thread
RtNodeOf(t) == FIRST_CN_ID + (t - 1)

\* the raw word of the pointer the first compute node publishes
RootPtr == 64

rt_Init ==
  /\ root_ = NullPtr
  /\ rt_main = [n \in RtNodes |-> "init"]
  /\ rt_root = [t \in BarThreads |-> NullPtr]

\* main of the first compute node: if (id == c0) { ...; set_root(ptr); }
rt_set_root ==
  /\ fatal = "none"
  /\ rt_main[FIRST_CN_ID] = "init"
  /\ root_' = RootPtr
  /\ rt_main' = [rt_main EXCEPT ![FIRST_CN_ID] = "rooted"]
  /\ UNCHANGED <<fatal, barVars, rt_root>>

\* main of compute node n creates its worker threads
rt_launch(n) ==
  /\ fatal = "none"
  /\ rt_main[n] = IF n = FIRST_CN_ID THEN "rooted" ELSE "init"
  /\ rt_main' = [rt_main EXCEPT ![n] = "started"]
  /\ UNCHANGED <<fatal, barVars, root_, rt_root>>

\* a worker thread that runs calls t->arrive_control_barrier(total_threads)
rt_arrive(t) ==
  /\ rt_main[RtNodeOf(t)] = "started"
  /\ bar_arrive(t)

\* auto root = t->get_root<SharedObject>() of a worker back from its first barrier
rt_get_root(t) ==
  /\ fatal = "none"
  /\ bar_done[t] >= 1
  /\ rt_root[t] = NullPtr
  /\ rt_root' = [rt_root EXCEPT ![t] = root_]
  /\ UNCHANGED <<fatal, barVars, root_, rt_main>>
-----------------------------------------------------------------------------
(* rdma_ptr<T>: a 64-bit word, the node id in its high 16 bits and the address in  *)
(* its low 48.  A word is written as its four 16-bit limbs, lowest first, and the  *)
(* unsigned 64-bit arithmetic of the code is done limb by limb with carries.       *)

\* kAddressBits = bitsof(sizeof(uint64_t)) - bitsof(sizeof(id_type))
kAddressBits == 48

LimbBase == 2 ^ 16

WordLimbs == 64 \div 16

AddressLimbs == kAddressBits \div 16

\* the offsets k run over -PtrMaxOffset .. PtrMaxOffset
PtrMaxOffset == 2

PtrOffsets == (0 - PtrMaxOffset) .. PtrMaxOffset

\* sizeof(T)
PtrSizes == {1, 4, 8}

\* the limbs the pointers are made of: the ends of the range and their neighbours
PtrLimbs == {0, 1, LimbBase - 1}

PtrWords == {<<a, b, c, d>> : a \in PtrLimbs, b \in PtrLimbs, c \in PtrLimbs, d \in PtrLimbs}

ZeroWord == [i \in 1 .. WordLimbs |-> 0]

\* a & b and a | b of two limbs
RECURSIVE BitAnd(_, _)
BitAnd(a, b) ==
  IF a = 0 \/ b = 0 THEN 0
  ELSE ((a % 2) * (b % 2)) + 2 * BitAnd(a \div 2, b \div 2)

RECURSIVE BitOr(_, _)
BitOr(a, b) ==
  IF a = 0 THEN b ELSE IF b = 0 THEN a
  ELSE (IF (a % 2) + (b % 2) > 0 THEN 1 ELSE 0) + 2 * BitOr(a \div 2, b \div 2)

WordAnd(x, y) == [i \in 1 .. WordLimbs |-> BitAnd(x[i], y[i])]

WordOr(x, y) == [i \in 1 .. WordLimbs |-> BitOr(x[i], y[i])]

\* x + y and x - y of uint64_t: the carry into limb i is what the limbs below it leave
RECURSIVE CarryInto(_, _, _)
CarryInto(x, y, i) ==
  IF i = 1 THEN 0 ELSE (x[i - 1] + y[i - 1] + CarryInto(x, y, i - 1)) \div LimbBase

WordAdd(x, y) == [i \in 1 .. WordLimbs |-> (x[i] + y[i] + CarryInto(x, y, i)) % LimbBase]

WordNeg(x) ==
  WordAdd([i \in 1 .. WordLimbs |-> LimbBase - 1 - x[i]],
          [i \in 1 .. WordLimbs |-> IF i = 1 THEN 1 ELSE 0])

WordSub(x, y) == WordAdd(x, WordNeg(y))

\* sizeof(element_type) * s of uint64_t, for a small factor
RECURSIVE MulCarryInto(_, _, _)
MulCarryInto(x, f, i) ==
  IF i = 1 THEN 0 ELSE (x[i - 1] * f + MulCarryInto(x, f, i - 1)) \div LimbBase

WordMul(x, f) == [i \in 1 .. WordLimbs |-> (x[i] * f + MulCarryInto(x, f, i)) % LimbBase]

\* the size_t an int k converts to
ToSizeT(k) ==
  IF k >= 0 THEN [i \in 1 .. WordLimbs |-> IF i = 1 THEN k ELSE 0]
  ELSE WordNeg([i \in 1 .. WordLimbs |-> IF i = 1 THEN 0 - k ELSE 0])

\* kAddressBitmask = (1ul << kAddressBits) - 1 and kIdBitmask = (uint64_t)(-1) ^ it
kAddressBitmask == [i \in 1 .. WordLimbs |-> IF i <= AddressLimbs THEN LimbBase - 1 ELSE 0]

kIdBitmask == [i \in 1 .. WordLimbs |-> IF i <= AddressLimbs THEN 0 ELSE LimbBase - 1]

\* x >> kAddressBits and x << kAddressBits
ShiftRightAddressBits(x) ==
  [i \in 1 .. WordLimbs |-> IF i + AddressLimbs <= WordLimbs THEN x[i + AddressLimbs] ELSE 0]

ShiftLeftAddressBits(x) ==
  [i \in 1 .. WordLimbs |-> IF i > AddressLimbs THEN x[i - AddressLimbs] ELSE 0]

\* rdma_ptr::id(), address(), raw()
ptr_id(raw_) == ShiftRightAddressBits(WordAnd(raw_, kIdBitmask))

ptr_address(raw_) == WordAnd(raw_, kAddressBitmask)

\* rdma_ptr::operator+=(size_t s) and so operator+(size_t s)
PtrPlusNoMask(raw_, s, size) == WordAdd(raw_, WordMul(s, size))

PtrPlus(raw_, s, size) ==
  LET address == WordAnd(WordAdd(raw_, WordMul(s, size)), kAddressBitmask)
  IN WordOr(WordAnd(raw_, kIdBitmask), address)

\* rdma_ptr::operator-=(size_t s) and so operator-(size_t s)
PtrMinus(raw_, s, size) ==
  LET address == WordAnd(WordSub(raw_, WordMul(s, size)), kAddressBitmask)
  IN WordOr(WordAnd(raw_, kIdBitmask), address)

\* rdma_ptr::operator==(std::nullptr_t): static_cast<T *>(*this) == n, and operator T *()
\* is reinterpret_cast<T *>(address())
PtrEqNull(raw_) == ptr_address(raw_) = ZeroWord

\* operator==(const volatile rdma_ptr &, const volatile rdma_ptr &)
PtrEq(p, q) == p = q

PtrNoOp == [op |-> "none", p |-> ZeroWord, q |-> ZeroWord, k |-> 0, size |-> 1,
            ret |-> ZeroWord, eq |-> FALSE]

\* no operation yet; each run applies one operation to the pointers it picks
ptr_Init == ptr_last = PtrNoOp

\* p + k for an rdma_ptr<T> p with sizeof(T) = size
ptr_plus(p, k, size) ==
  /\ ptr_last.op = "none"
  /\ ptr_last' = [PtrNoOp EXCEPT !.op = "+", !.p = p, !.k = k, !.size = size,
                              !.ret = PtrPlus(p, ToSizeT(k), size)]

\* p - k
ptr_minus(p, k, size) ==
  /\ ptr_last.op = "none"
  /\ ptr_last' = [PtrNoOp EXCEPT !.op = "-", !.p = p, !.k = k, !.size = size,
                              !.ret = PtrMinus(p, ToSizeT(k), size)]

\* p == nullptr
ptr_eq_null(p) ==
  /\ ptr_last.op = "none"
  /\ ptr_last' = [PtrNoOp EXCEPT !.op = "== nullptr", !.p = p, !.eq = PtrEqNull(p)]

\* p == q
ptr_eq(p, q) ==
  /\ ptr_last.op = "none"
  /\ ptr_last' = [PtrNoOp EXCEPT !.op = "==", !.p = p, !.q = q, !.eq = PtrEq(p, q)]
-----------------------------------------------------------------------------
(* MnAllocPolicy for clusters whose memory nodes are any contiguous range of ids: one *)
(* thread of one compute node sets its policy and asks for segments.                  *)

\* the largest node id of the clusters
PolMaxNode == 2

\* how many get_mn_seg calls the thread makes, at most
MaxPolCalls == 3

\* the clusters: memory nodes m0 .. mn, compute nodes the same nodes or nodes 0 .. 1,
\* one or two threads per compute node, one or two segments per memory node
PolConfigs ==
  {[FIRST_MN_ID |-> m0, LAST_MN_ID |-> mn, FIRST_CN_ID |-> c[1], LAST_CN_ID |-> c[2],
    CN_THREADS |-> th, SEGS_PER_MN |-> sg, SEG_SIZE |-> SEG_SIZE] :
     m0 \in 0 .. 1, mn \in 1 .. PolMaxNode, c \in {<<0, 1>>, <<1, PolMaxNode>>},
     th \in 1 .. 2, sg \in 1 .. 2}

\* the threads of the cluster args, as <<NODE_ID, thread id>>
PolThreads(args) ==
  (args.FIRST_CN_ID .. args.LAST_CN_ID) \X (0 .. (args.CN_THREADS - 1))

pol_Init ==
  /\ pol_args = ClusterArgs
  /\ pol_thread = <<0, 0>>
  /\ pol_policy_ = "unborn"
  /\ pol_last_mn_ = 0
  /\ pol_last_seg_ = 0
  /\ pol_ret = <<>>
  /\ pol_calls = 0

\* MnAllocPolicy::MnAllocPolicy and the set_policy call of ComputeThread's constructor
pol_new_thread(args, t, pol) ==
  /\ fatal = "none"
  /\ pol_policy_ = "unborn"
  /\ pol_args' = args
  /\ pol_thread' = t
  /\ pol_policy_' = pol
  /\ \E p \in set_policy_of(args, pol, t) :
       /\ fatal' = p.fatal
       /\ pol_last_mn_' = p.last_mn_
       /\ pol_last_seg_' = p.last_seg_
  /\ UNCHANGED <<pol_ret, pol_calls>>

\* MnAllocPolicy::get_mn_seg
pol_get_mn_seg ==
  /\ fatal = "none"
  /\ pol_policy_ # "unborn"
  /\ pol_calls < MaxPolCalls
  /\ pol_calls' = pol_calls + 1
  /\ \E ms \in get_mn_seg_of(pol_args, pol_policy_, pol_last_mn_, pol_last_seg_) :
       /\ pol_last_mn_' = ms[1]
       /\ pol_last_seg_' = ms[2]
       /\ pol_ret' = ms
  /\ UNCHANGED <<fatal, pol_args, pol_thread, pol_policy_>>
-----------------------------------------------------------------------------
(* LazyListSet::Node::acquire and release: threads lock and unlock the nodes pred and *)
(* curr of a list.  Every load, store and compare-and-swap of lock_ is a one-sided    *)
(* operation on the node's memory, and a step of its own.                             *)

\* the threads that use the list
LockThreads == 3

LkThreads == 1 .. LockThreads

LkNodes == {"pred", "curr"}

\* Atomic<T>::compare_exchange_weak(expected, desired): the boolean it returns and the
\* word it leaves
compare_exchange_weak(word, expected, desired) ==
  LET res == NicCompareAndSwap(word, expected, desired)
  IN [ret |-> (res.prev = expected), word |-> res.word]

\* if (lock_.compare_exchange_weak(0, 1, ct) == 0) break: the boolean is compared
\* with 0, which is false
AcquireBreaks(ret) == (ret = FALSE)

lk_Init ==
  /\ lock_ = [n \in LkNodes |-> 0]
  /\ lk_pc = [t \in LkThreads |-> "idle"]
  /\ lk_node = [t \in LkThreads |-> "none"]
  /\ lk_own = [t \in LkThreads |-> FALSE]
  /\ lk_seen = [t \in LkThreads |-> 0]

\* a thread calls acquire on node n
lk_acquire(t, n) ==
  /\ lk_pc[t] = "idle"
  /\ lk_pc' = [lk_pc EXCEPT ![t] = "cas"]
  /\ lk_node' = [lk_node EXCEPT ![t] = n]
  /\ lk_own' = [lk_own EXCEPT ![t] = FALSE]
  /\ UNCHANGED <<fatal, lock_, lk_seen>>

\* the head of the outer loop of acquire: the compare-and-swap and the test of what
\* compare_exchange_weak returned; acquire returns on break
lk_cas(t) ==
  /\ lk_pc[t] = "cas"
  /\ \E r \in {compare_exchange_weak(lock_[lk_node[t]], 0, 1)} :
       /\ lock_' = [lock_ EXCEPT ![lk_node[t]] = r.word]
       /\ lk_own' = [lk_own EXCEPT ![t] = r.ret]
       /\ lk_pc' = [lk_pc EXCEPT ![t] = IF AcquireBreaks(r.ret) THEN "held" ELSE "spin"]
  /\ UNCHANGED <<fatal, lk_node, lk_seen>>

\* the inner loop of acquire: lock_.load(ct)
lk_load(t) ==
  /\ lk_pc[t] = "spin"
  /\ lk_seen' = [lk_seen EXCEPT ![t] = lock_[lk_node[t]]]
  /\ lk_pc' = [lk_pc EXCEPT ![t] = "loaded"]
  /\ UNCHANGED <<fatal, lock_, lk_node, lk_own>>

\* the inner loop of acquire: while (... == 1), which goes on or leaves for the outer
\* loop
lk_test(t) ==
  /\ lk_pc[t] = "loaded"
  /\ lk_pc' = [lk_pc EXCEPT ![t] = IF lk_seen[t] = 1 THEN "spin" ELSE "cas"]
  /\ lk_seen' = [lk_seen EXCEPT ![t] = 0]
  /\ UNCHANGED <<fatal, lock_, lk_node, lk_own>>

\* Node::release by a thread to which acquire has returned: lock_.store(0, ct)
lk_release(t) ==
  /\ lk_pc[t] = "held"
  /\ lock_' = [lock_ EXCEPT ![lk_node[t]] = 0]
  /\ lk_pc' = [lk_pc EXCEPT ![t] = "idle"]
  /\ lk_node' = [lk_node EXCEPT ![t] = "none"]
  /\ lk_own' = [lk_own EXCEPT ![t] = FALSE]
  /\ UNCHANGED <<fatal, lk_seen>>
-----------------------------------------------------------------------------
(* LockFreeList: a sorted singly linked list in remote memory.  Threads insert and    *)
(* remove keys; every load and compare-and-swap of head and of a node's next is a     *)
(* one-sided operation and a step of its own.  Node::key is written once, before the  *)
(* node is linked, so its load goes with the load of next.  The value stored with a   *)
(* key is left out.                                                                   *)

\* the threads that use the list
ListThreads == 2

\* the keys they insert and remove are 1 .. MaxKey
MaxKey == 2

\* how many nodes the segment has room for
MaxLfNodes == 3

\* how many insert and remove calls the threads make, at most, all together
MaxLfOps == 3

LfThreads == 1 .. ListThreads

LfKeys == 1 .. MaxKey

LfNodes == 1 .. MaxLfNodes

LfNoLoc == [op |-> "none", key |-> 0, prev |-> NullPtr, curr |-> NullPtr,
            next |-> NullPtr, new_node |-> NullPtr]

LfNoCall == [op |-> "none", key |-> 0, ret |-> FALSE, present |-> FALSE]

lf_Init ==
  /\ lf_head = NullPtr
  /\ lf_key = [n \in LfNodes |-> 0]
  /\ lf_next = [n \in LfNodes |-> NullPtr]
  /\ lf_nodes = 0
  /\ lf_free = [t \in LfThreads |-> <<>>]
  /\ lf_pc = [t \in LfThreads |-> "idle"]
  /\ lf_loc = [t \in LfThreads |-> LfNoLoc]
  /\ lf_present = {}
  /\ lf_ops = 0
  /\ lf_last = LfNoCall

\* ComputeThread::New<Node>() of thread t: the node deleted last, or a fresh one
LfNew(t) ==
  IF lf_free[t] # <<>>
    THEN [node |-> lf_free[t][Len(lf_free[t])],
          free |-> SubSeq(lf_free[t], 1, Len(lf_free[t]) - 1), nodes |-> lf_nodes]
    ELSE [node |-> lf_nodes + 1, free |-> lf_free[t], nodes |-> lf_nodes + 1]

\* LockFreeList::get(key), run with no step of another thread in between: TRUE when it
\* returns a value
RECURSIVE LfGet(_, _)
LfGet(curr, key) ==
  IF curr = NullPtr THEN FALSE
  ELSE IF lf_key[curr] = key THEN TRUE
  ELSE IF lf_key[curr] > key THEN FALSE
  ELSE LfGet(lf_next[curr], key)

\* insert(key, value, ct) is called: the new node is made
lf_insert(t, key) ==
  /\ lf_pc[t] = "idle"
  /\ lf_ops < MaxLfOps
  /\ lf_free[t] # <<>> \/ lf_nodes < MaxLfNodes
  /\ lf_ops' = lf_ops + 1
  /\ \E a \in {LfNew(t)} :
       /\ lf_free' = [lf_free EXCEPT ![t] = a.free]
       /\ lf_nodes' = a.nodes
       /\ lf_key' = [lf_key EXCEPT ![a.node] = key]
       /\ lf_next' = [lf_next EXCEPT ![a.node] = NullPtr]
       /\ lf_loc' = [lf_loc EXCEPT ![t] =
                       [LfNoLoc EXCEPT !.op = "insert", !.key = key, !.new_node = a.node]]
  /\ lf_pc' = [lf_pc EXCEPT ![t] = "load"]
  /\ UNCHANGED <<fatal, lf_head, lf_present, lf_last>>

\* remove(key, ct) is called
lf_remove(t, key) ==
  /\ lf_pc[t] = "idle"
  /\ lf_ops < MaxLfOps
  /\ lf_ops' = lf_ops + 1
  /\ lf_loc' = [lf_loc EXCEPT ![t] =
                  [LfNoLoc EXCEPT !.op = "remove", !.key = key]]
  /\ lf_pc' = [lf_pc EXCEPT ![t] = "load"]
  /\ UNCHANGED <<fatal, lf_head, lf_key, lf_next, lf_nodes, lf_free, lf_present, lf_last>>

\* the top of while (true): prev = nullptr, curr = This->head.load(ct)
lf_load(t) ==
  /\ lf_pc[t] = "load"
  /\ lf_loc' = [lf_loc EXCEPT ![t].prev = NullPtr, ![t].curr = lf_head, ![t].next = NullPtr]
  /\ lf_pc' = [lf_pc EXCEPT ![t] = "find"]
  /\ UNCHANGED <<fatal, lf_head, lf_key, lf_next, lf_nodes, lf_free, lf_present, lf_ops,
                 lf_last>>

\* one turn of the search loop, or what follows it when it ends: insert returns false
\* for a key it finds and stores curr in the new node otherwise, remove returns false
\* for a key it does not find and loads curr->next otherwise
lf_find(t) ==
  /\ lf_pc[t] = "find"
  /\ LET l == lf_loc[t]
         found == l.curr # NullPtr /\ lf_key[l.curr] = l.key
     IN IF l.curr # NullPtr /\ lf_key[l.curr] < l.key
          THEN /\ lf_loc' = [lf_loc EXCEPT ![t].prev = l.curr, ![t].curr = lf_next[l.curr]]
               /\ UNCHANGED <<lf_pc, lf_next, lf_free, lf_last>>
        ELSE IF l.op = "insert" /\ found
          THEN /\ lf_free' = [lf_free EXCEPT ![t] = Append(@, l.new_node)]
               /\ lf_loc' = [lf_loc EXCEPT ![t] = LfNoLoc]
               /\ lf_pc' = [lf_pc EXCEPT ![t] = "idle"]
               /\ lf_last' = [op |-> "insert", key |-> l.key, ret |-> FALSE,
                              present |-> l.key \in lf_present]
               /\ UNCHANGED lf_next
        ELSE IF l.op = "insert"
          THEN /\ lf_next' = [lf_next EXCEPT ![l.new_node] = l.curr]
               /\ lf_pc' = [lf_pc EXCEPT ![t] = "cas"]
               /\ UNCHANGED <<lf_loc, lf_free, lf_last>>
        ELSE IF ~found
          THEN /\ lf_loc' = [lf_loc EXCEPT ![t] = LfNoLoc]
               /\ lf_pc' = [lf_pc EXCEPT ![t] = "idle"]
               /\ lf_last' = [op |-> "remove", key |-> l.key, ret |-> FALSE,
                              present |-> l.key \in lf_present]
               /\ UNCHANGED <<lf_next, lf_free>>
        ELSE /\ lf_loc' = [lf_loc EXCEPT ![t].next = lf_next[l.curr]]
             /\ lf_pc' = [lf_pc EXCEPT ![t] = "cas"]
             /\ UNCHANGED <<lf_next, lf_free, lf_last>>
  /\ UNCHANGED <<fatal, lf_head, lf_key, lf_nodes, lf_present, lf_ops>>

\* the compare-and-swap of head (no prev) or of prev->next, from curr to the new node
\* (insert) or to next (remove); the call returns true when it succeeds and goes back
\* to the top of the loop when it fails
lf_cas(t) ==
  /\ lf_pc[t] = "cas"
  /\ LET l == lf_loc[t]
         desired == IF l.op = "insert" THEN l.new_node ELSE l.next
         word == IF l.prev = NullPtr THEN lf_head ELSE lf_next[l.prev]
         r == compare_exchange_weak(word, l.curr, desired)
     IN /\ lf_head' = IF l.prev = NullPtr THEN r.word ELSE lf_head
        /\ lf_next' = IF l.prev = NullPtr THEN lf_next
                      ELSE [lf_next EXCEPT ![l.prev] = r.word]
        /\ IF r.ret
             THEN /\ lf_loc' = [lf_loc EXCEPT ![t] = LfNoLoc]
                  /\ lf_pc' = [lf_pc EXCEPT ![t] = "idle"]
                  /\ lf_present' = IF l.op = "insert" THEN lf_present \cup {l.key}
                                   ELSE lf_present \ {l.key}
                  /\ lf_last' = [op |-> l.op, key |-> l.key, ret |-> TRUE,
                                 present |-> l.key \in lf_present]
             ELSE /\ lf_pc' = [lf_pc EXCEPT ![t] = "load"]
                  /\ UNCHANGED <<lf_loc, lf_present, lf_last>>
  /\ UNCHANGED <<fatal, lf_key, lf_nodes, lf_free, lf_ops>>

\* get(key, ct) while no thread is in a call
lf_get(key) ==
  /\ \A t \in LfThreads : lf_pc[t] = "idle"
  /\ lf_last' = [op |-> "get", key |-> key, ret |-> LfGet(lf_head, key),
                 present |-> key \in lf_present]
  /\ UNCHANGED <<fatal, lf_head, lf_key, lf_next, lf_nodes, lf_free, lf_pc, lf_loc,
                 lf_present, lf_ops>>
-----------------------------------------------------------------------------
(* perftest: the lambda every worker thread of every compute node runs.  The threads  *)
(* are those of the barrier (BarThreads, barrier_thread_count = BarrierThreads);      *)
(* thread 1 is thread 0 of the first compute node.  The loop of operations on the     *)
(* root object is one step: it is bounded by --ops and touches no barrier state.      *)

\* --exp-name: the default, and any other name
PfNames == {"perftest", "other"}

\* id == c0 && i == 0
PfLead(t) == t = 1

PfSites == <<"setup", "ops", "end", "final", "done">>

\* the place in the lambda that follows site
PfAfter(site) ==
  PfSites[(CHOOSE i \in 1 .. Len(PfSites) - 1 : PfSites[i] = site) + 1]

\* whether thread t calls arrive_control_barrier at site: the lead's first call and
\* everybody's second are under if (args->sget(EXP_NAME) != "perftest")
PfCallsBarrier(t, site, name) ==
  CASE site = "setup" -> (PfLead(t) => name # "perftest")
    [] site = "end" -> name # "perftest"
    [] site = "final" -> TRUE
    [] OTHER -> FALSE

pf_Init ==
  /\ pf_exp_name = "unborn"
  /\ pf_pc = [t \in BarThreads |-> "unborn"]

\* main: the arguments are parsed and the worker threads are started
pf_main(name) ==
  /\ pf_exp_name = "unborn"
  /\ pf_exp_name' = name
  /\ pf_pc' = [t \in BarThreads |-> "setup"]
  /\ UNCHANGED <<fatal, barVars>>

\* t->arrive_control_barrier(barrier_thread_count) up to the test for the last arrival
pf_arrive(t) ==
  /\ pf_pc[t] \in {"setup", "end", "final"}
  /\ PfCallsBarrier(t, pf_pc[t], pf_exp_name)
  /\ bar_arrive(t)
  /\ UNCHANGED pfVars

\* a barrier the thread does not call
pf_skip(t) ==
  /\ pf_pc[t] \in {"setup", "end", "final"}
  /\ bar_pc[t] = "idle"
  /\ ~PfCallsBarrier(t, pf_pc[t], pf_exp_name)
  /\ pf_pc' = [pf_pc EXCEPT ![t] = PfAfter(@)]
  /\ UNCHANGED <<pf_exp_name, fatal, barVars>>

\* the call returns to the last arrival
pf_write(t) ==
  /\ bar_write(t)
  /\ pf_pc' = [pf_pc EXCEPT ![t] = PfAfter(@)]
  /\ UNCHANGED pf_exp_name

\* one turn of the spin loop of the call, which returns when the sense has changed
pf_spin(t) ==
  /\ bar_spin(t)
  /\ pf_pc' = [pf_pc EXCEPT ![t] = IF bar_pc'[t] = "idle" THEN PfAfter(@) ELSE @]
  /\ UNCHANGED pf_exp_name

\* for (j = 0; j < ops; j++): the Write, Read, CAS or FAA on the root object
pf_ops(t) ==
  /\ pf_pc[t] = "ops"
  /\ pf_pc' = [pf_pc EXCEPT ![t] = "end"]
  /\ UNCHANGED <<pf_exp_name, fatal, barVars>>
-----------------------------------------------------------------------------
(* The free lists of one thread: the thread allocates blocks of the small, the      *)
(* medium and the large size classes from one segment of 2^20 bytes, gives them     *)
(* back and allocates again.  Nothing else touches the segment, so that an allocate *)
(* call is one step.                                                                *)

\* how many allocate calls the thread makes, at most
MaxFlCalls == 3

\* the n of allocate<uint8_t>(n): blocks of 64, 2048, 9024 and 12032 bytes
FlBytes == {1, 2000, 9000, 12000}

\* the segment the policy of the thread names: GLOBAL-MOD, thread 0 of node 0
FlSeg == <<0, 0>>

\* ComputeNode::get_seg_start for the arguments args
get_seg_start_of(args, mn_id, seg_id) ==
  (mn_id * args.SEGS_PER_MN + seg_id + 1) * 2 ^ args.SEG_SIZE

FlNoOp == [op |-> "none", size |-> 0, path |-> "none", ret |-> NullOpt]

fl_Init ==
  /\ fl_allocated_ = ControlBlockSize
  /\ fl_header_size_ = EmptyMap
  /\ fl_freelists_ = EmptyMap
  /\ fl_free_blocks_ = <<>>
  /\ fl_live = {}
  /\ fl_calls = 0
  /\ fl_last = FlNoOp

\* ComputeThread::allocate<uint8_t>(n): try_allocate_local, and try_allocate_global
\* when it returns nothing; a fetch-and-add whose block does not fit the segment is
\* followed by others that do not fit either, and the call does not return
fl_allocate(n) ==
  /\ fatal = "none"
  /\ fl_calls < MaxFlCalls
  /\ fl_calls' = fl_calls + 1
  /\ \E size \in {compute_size(1, n)} :
     \E local \in {try_allocate_local(fl_freelists_, fl_free_blocks_, size)} :
       /\ fl_freelists_' = local.freelists_
       /\ fl_free_blocks_' = local.free_blocks_
       /\ IF local.ret # NullOpt
            THEN /\ fl_live' = fl_live \cup {local.ret}
                 /\ fl_last' = [op |-> "allocate", size |-> size, path |-> "local",
                                ret |-> local.ret]
                 /\ UNCHANGED <<fl_allocated_, fl_header_size_>>
            ELSE \E f \in {NicFetchAndAdd(fl_allocated_, size)} :
                 \E ptr \in {get_seg_start_of(SatArgs, FlSeg[1], FlSeg[2]) + f.prev} :
                   /\ FitsSegmentOf(SatArgs, f.prev, size)
                   /\ fl_allocated_' = f.word
                   /\ fl_header_size_' = MapPut(fl_header_size_, ptr, size)
                   /\ fl_live' = fl_live \cup {ptr + HEADER_SIZE}
                   /\ fl_last' = [op |-> "allocate", size |-> size, path |-> "global",
                                  ret |-> ptr + HEADER_SIZE]
  /\ UNCHANGED fatal

\* ComputeThread::deallocate(ptr): the size is read from the header and the block is
\* reclaimed
fl_deallocate(ptr) ==
  /\ fatal = "none"
  /\ ptr \in fl_live
  /\ \E r \in {reclaim(fl_freelists_, fl_free_blocks_, ptr,
                       fl_header_size_[ptr - HEADER_SIZE])} :
       /\ fl_freelists_' = r.freelists_
       /\ fl_free_blocks_' = r.free_blocks_
  /\ fl_live' = fl_live \ {ptr}
  /\ fl_last' = [FlNoOp EXCEPT !.op = "deallocate", !.ret = ptr]
  /\ UNCHANGED <<fatal, fl_allocated_, fl_header_size_, fl_calls>>
-----------------------------------------------------------------------------
(* Specifications *)

vars == <<fatal, rcVars, rbVars, barVars, memVars, ctVars, allocVars, satVars, sdVars, lsVars, regVars, lnVars, asVars, rtVars, peerVars, ptrVars, flVars, polVars, lkVars, lfVars, pfVars>>

\* what the steps of one subsystem leave alone: the variables of the others
frameRingCounter == <<rbVars, barVars, memVars, ctVars, allocVars, satVars, sdVars, lsVars, regVars, lnVars, asVars, rtVars, peerVars, ptrVars, flVars, polVars, lkVars, lfVars, pfVars>>
frameRingBuf == <<rcVars, barVars, memVars, ctVars, allocVars, satVars, sdVars, lsVars, regVars, lnVars, asVars, rtVars, peerVars, ptrVars, flVars, polVars, lkVars, lfVars, pfVars>>
frameBarrier == <<rcVars, rbVars, memVars, ctVars, allocVars, satVars, sdVars, lsVars, regVars, lnVars, asVars, rtVars, peerVars, ptrVars, flVars, polVars, lkVars, lfVars, pfVars>>
frameThread == <<rcVars, rbVars, barVars, allocVars, satVars, sdVars, lsVars, regVars, lnVars, asVars, rtVars, peerVars, ptrVars, flVars, polVars, lkVars, lfVars, pfVars>>
frameAlloc == <<rcVars, rbVars, barVars, memVars, ctVars, satVars, sdVars, lsVars, regVars, lnVars, asVars, rtVars, peerVars, ptrVars, flVars, polVars, lkVars, lfVars, pfVars>>
frameSat == <<rcVars, rbVars, barVars, memVars, ctVars, allocVars, sdVars, lsVars, regVars, lnVars, asVars, rtVars, peerVars, ptrVars, flVars, polVars, lkVars, lfVars, pfVars>>
frameShutdown == <<fatal, rcVars, rbVars, barVars, memVars, ctVars, allocVars, satVars, lsVars, regVars, lnVars, asVars, rtVars, peerVars, ptrVars, flVars, polVars, lkVars, lfVars, pfVars>>
frameListen == <<rcVars, rbVars, barVars, memVars, ctVars, allocVars, satVars, sdVars, regVars, lnVars, asVars, rtVars, peerVars, ptrVars, flVars, polVars, lkVars, lfVars, pfVars>>
frameLane == <<rcVars, rbVars, barVars, memVars, ctVars, allocVars, satVars, sdVars, lsVars, regVars, asVars, rtVars, peerVars, ptrVars, flVars, polVars, lkVars, lfVars, pfVars>>
frameAsync == <<memVars, rcVars, rbVars, barVars, allocVars, satVars, sdVars, lsVars, regVars, lnVars, rtVars, peerVars, ptrVars, flVars, polVars, lkVars, lfVars, pfVars>>
frameRoot == <<rcVars, rbVars, memVars, ctVars, allocVars, satVars, sdVars, lsVars, regVars, lnVars, asVars, peerVars, ptrVars, flVars, polVars, lkVars, lfVars, pfVars>>
framePeer == <<rcVars, rbVars, barVars, memVars, allocVars, satVars, sdVars, lsVars, regVars, lnVars, asVars, rtVars, ptrVars, flVars, polVars, lkVars, lfVars, pfVars>>
framePtr == <<fatal, rcVars, rbVars, barVars, memVars, ctVars, allocVars, satVars, sdVars, lsVars, regVars, lnVars, asVars, rtVars, peerVars, flVars, polVars, lkVars, lfVars, pfVars>>
frameRegister == <<rcVars, rbVars, barVars, memVars, ctVars, allocVars, satVars, sdVars, lsVars, lnVars, asVars, rtVars, peerVars, ptrVars, flVars, polVars, lkVars, lfVars, pfVars>>
frameFreeList == <<rcVars, rbVars, barVars, memVars, ctVars, allocVars, satVars, sdVars, lsVars, regVars, lnVars, asVars, rtVars, peerVars, ptrVars, polVars, lkVars, lfVars, pfVars>>
framePolicy == <<rcVars, rbVars, barVars, memVars, ctVars, allocVars, satVars, sdVars, lsVars, regVars, lnVars, asVars, rtVars, peerVars, ptrVars, flVars, lkVars, lfVars, pfVars>>
frameLock == <<rcVars, rbVars, barVars, memVars, ctVars, allocVars, satVars, sdVars, lsVars, regVars, lnVars, asVars, rtVars, peerVars, ptrVars, flVars, polVars, lfVars, pfVars>>
frameList == <<rcVars, rbVars, barVars, memVars, ctVars, allocVars, satVars, sdVars, lsVars, regVars, lnVars, asVars, rtVars, peerVars, ptrVars, flVars, polVars, lkVars, pfVars>>
framePerf == <<rcVars, rbVars, memVars, ctVars, allocVars, satVars, sdVars, lsVars, regVars, lnVars, asVars, rtVars, peerVars, ptrVars, flVars, polVars, lkVars, lfVars>>

\* the state after construction of everything but the cluster of the shutdown and the
\* memory node of the listener
InitCore ==
  /\ fatal = "none"
  /\ rc_Init
  /\ rb_Init
  /\ bar_Init
  /\ mem_Init
  /\ ct_Init
  /\ alloc_Init
  /\ sat_Init
  /\ reg_Init
  /\ ln_Init
  /\ as_Init
  /\ rt_Init
  /\ peer_Init
  /\ ptr_Init
  /\ fl_Init
  /\ pol_Init
  /\ lk_Init
  /\ lf_Init
  /\ pf_Init

Init == InitCore /\ sd_Init /\ ls_Init

\* the same for any of the clusters of the shutdown
InitShutdown == InitCore /\ (\E args \in SdConfigs : sd_InitWith(args)) /\ ls_Init

\* the same for any of the memory nodes of the listener
InitListen == InitCore /\ sd_Init /\ (\E args \in LsConfigs : ls_InitWith(args))

NextRingCounter ==
  \/ rc_acquire /\ UNCHANGED frameRingCounter
  \/ rc_release /\ UNCHANGED frameRingCounter

SpecRingCounter == Init /\ [][NextRingCounter]_vars

NextRingBuf ==
  \/ rb_acquire /\ UNCHANGED frameRingBuf
  \/ rb_release /\ UNCHANGED frameRingBuf

SpecRingBuf == Init /\ [][NextRingBuf]_vars

NextBarrier ==
  \/ \E t \in BarThreads : bar_arrive(t) /\ UNCHANGED frameBarrier
  \/ \E t \in BarThreads : bar_write(t) /\ UNCHANGED frameBarrier
  \/ \E t \in BarThreads : bar_spin(t) /\ UNCHANGED frameBarrier

SpecBarrier == Init /\ [][NextBarrier]_vars

\* one thread reading, writing and compare-and-swapping words of its own memory node
\* and of a remote one, while threads of other nodes write the same words
NextMem ==
  \/ \E n \in MemNodes, sz \in TSizes :
       \E off \in TOffsets(sz), val \in TValues(sz),
          lc \in IF n = node_id THEN BOOLEAN ELSE {TRUE} :
         ct_Write(n, off, val, lc) /\ UNCHANGED frameThread
  \/ \E n \in MemNodes, sz \in TSizes : \E off \in TOffsets(sz) :
       ct_Read(n, off, sz) /\ UNCHANGED frameThread
  \/ \E n \in MemNodes, sz \in TSizes : \E e \in TValues(sz) :
       ct_CompareAndSwap(n, 0, e, TMark(sz)) /\ UNCHANGED frameThread
  \/ \E n \in MemNodes, sz \in TSizes : \E off \in TOffsets(sz) :
       other_Write(n, off, TMark(sz)) /\ UNCHANGED frameThread

SpecMem == Init /\ [][NextMem]_vars

\* one thread building and collecting sequenced groups on a remote memory node,
\* writing its own node, reading in between, and being dropped
NextThread ==
  \/ \E sz \in TSizes, signal \in BOOLEAN :
       ct_ReadSeq(LAST_MN_ID, 0, sz, signal) /\ UNCHANGED frameThread
  \/ \E n \in MemNodes, signal \in BOOLEAN :
       ct_WriteSeq(n, 0, TMark(WordBytes), signal, TRUE)
         /\ UNCHANGED frameThread
  \/ ct_Read(LAST_MN_ID, 0, WordBytes) /\ UNCHANGED frameThread
  \/ ct_drop /\ UNCHANGED frameThread

SpecThread == Init /\ [][NextThread]_vars

\* one thread taking and returning buffers of its cached ring, reading a remote word
\* in between, and being dropped
NextCache ==
  \/ \E k \in LocalElements :
       ct_local_allocate(k) /\ UNCHANGED frameThread
  \/ \E buf \in cached_buf_manager_ :
       ct_local_deallocate(buf) /\ UNCHANGED frameThread
  \/ \E sz \in TSizes :
       ct_Read(LAST_MN_ID, 0, sz) /\ UNCHANGED frameThread
  \/ ct_drop /\ UNCHANGED frameThread

SpecCache == Init /\ [][NextCache]_vars

\* threads of two compute nodes that allocate and deallocate blocks of the segments
NextAlloc ==
  \/ \E t \in AllocThreads, pol \in AllocPolicies :
       al_new_thread(t, pol) /\ UNCHANGED frameAlloc
  \/ \E t \in AllocThreads, n \in AllocElements :
       al_allocate(t, n) /\ UNCHANGED frameAlloc
  \/ \E t \in AllocThreads :
       al_pick(t) /\ UNCHANGED frameAlloc
  \/ \E t \in AllocThreads :
       al_faa(t) /\ UNCHANGED frameAlloc
  \/ \E t \in AllocThreads :
       al_fresh(t) /\ UNCHANGED frameAlloc
  \/ \E b \in al_live :
       al_deallocate(b[2], b[1]) /\ UNCHANGED frameAlloc

SpecAlloc == Init /\ [][NextAlloc]_vars


\* the saturation scenario: the thread allocates until no allocation returns
NextSaturate ==
  \/ \E pol \in SatPolicies, bytes \in SatBytes :
       sat_new_thread(pol, bytes) /\ UNCHANGED frameSat
  \/ sat_allocate /\ UNCHANGED frameSat
  \/ sat_pick /\ UNCHANGED frameSat
  \/ sat_faa /\ UNCHANGED frameSat
  \/ sat_fresh /\ UNCHANGED frameSat

SpecSaturate == Init /\ [][NextSaturate]_vars

\* the same, with a thread that keeps running
SpecSaturateFair == SpecSaturate /\ WF_vars(NextSaturate)

\* a cluster shutting down: its threads are dropped and its memory nodes destructed,
\* in any order
NextShutdown ==
  \/ \E t \in SdThreads(sd_args) : sd_drop(t) /\ UNCHANGED frameShutdown
  \/ \E m \in SdMemNodes(sd_args) : sd_mn_destroy(m) /\ UNCHANGED frameShutdown
  \/ \E m \in SdMemNodes(sd_args) : sd_mn_wait(m) /\ UNCHANGED frameShutdown

SpecShutdown == InitShutdown /\ [][NextShutdown]_vars

\* the same, where a destructor that can go on does
SpecShutdownFair ==
  /\ SpecShutdown
  /\ \A m \in SdNodes : WF_vars(m \in SdMemNodes(sd_args) /\ sd_mn_wait(m) /\ UNCHANGED frameShutdown)

\* a memory node's listener, the compute nodes connecting to it, and a connect request
\* that carries the memory node's own id
NextListen ==
  \/ \E c \in LsComputeNodes(ls_args) : ls_connect(c) /\ UNCHANGED frameListen
  \/ ls_stray_connect /\ UNCHANGED frameListen
  \/ ls_handle /\ UNCHANGED frameListen

SpecListen == InitListen /\ [][NextListen]_vars

\* threads of one compute node registering concurrently, more of them than --cn-threads
NextRegister ==
  \/ \E t \in RegCallers : reg_fetch(t) /\ UNCHANGED frameRegister
  \/ \E t \in RegCallers : reg_return(t) /\ UNCHANGED frameRegister

SpecRegister == Init /\ [][NextRegister]_vars

\* the operations of the threads of one compute node on one lane, started and completed
NextLane ==
  \/ ln_start /\ UNCHANGED frameLane
  \/ ln_complete /\ UNCHANGED frameLane

SpecLane == Init /\ [][NextLane]_vars

\* one thread running ReadAsync coroutines side by side on the connection to one
\* memory node, whose word another compute node writes
NextAsync ==
  \/ \E c \in AsCoros, nic \in BOOLEAN :
       as_ReadAsync(c, LAST_MN_ID, 0, WordBytes, nic) /\ UNCHANGED frameAsync
  \/ as_nic /\ UNCHANGED frameAsync
  \/ \E c \in AsCoros : as_resume(c) /\ UNCHANGED frameAsync
  \/ \E c \in AsCoros, outcome \in AsResumeDoneOutcomes :
       as_resume_done(c, outcome) /\ UNCHANGED frameAsync
  \/ \E c \in AsCoros : as_drop(c) /\ UNCHANGED frameAsync
  \/ other_Write(LAST_MN_ID, 0, TMark(WordBytes)) /\ UNCHANGED frameThread

SpecAsync == Init /\ [][NextAsync]_vars

\* one thread building sequenced groups of staged and zero-copy reads and writes on a
\* remote memory node, and writing its own node
NextSeq ==
  \/ \E sz \in TSizes, signal \in BOOLEAN :
       ct_ReadSeq(LAST_MN_ID, 0, sz, signal) /\ UNCHANGED frameThread
  \/ \E n \in MemNodes, sz \in TSizes, signal \in BOOLEAN :
       ct_WriteSeq(n, 0, TMark(sz), signal, TRUE) /\ UNCHANGED frameThread
  \/ \E sz \in TSizes, signal \in BOOLEAN :
       ct_ReadSeqZeroCopy(LAST_MN_ID, 0, sz, signal) /\ UNCHANGED frameThread
  \/ \E n \in MemNodes, sz \in TSizes, signal \in BOOLEAN :
       ct_WriteSeqZeroCopy(n, 0, TMark(sz), signal, TRUE) /\ UNCHANGED frameThread

SpecSeq == Init /\ [][NextSeq]_vars

\* the main threads of the compute nodes, the first of which publishes the root, and
\* their worker threads, which pass the barrier and read the root
NextRoot ==
  \/ rt_set_root /\ UNCHANGED frameRoot
  \/ \E n \in RtNodes : rt_launch(n) /\ UNCHANGED frameRoot
  \/ \E t \in BarThreads : rt_arrive(t) /\ UNCHANGED frameBarrier
  \/ \E t \in BarThreads : bar_write(t) /\ UNCHANGED frameBarrier
  \/ \E t \in BarThreads : bar_spin(t) /\ UNCHANGED frameBarrier
  \/ \E t \in BarThreads : rt_get_root(t) /\ UNCHANGED frameRoot

SpecRoot == Init /\ [][NextRoot]_vars

\* two threads of one compute node: one reads, batches and asks no_leak_detected, the
\* other runs one-sided operations of its own
NextLeak ==
  \/ ct_Read(LAST_MN_ID, 0, WordBytes) /\ UNCHANGED frameThread
  \/ \E signal \in BOOLEAN :
       ct_ReadSeq(LAST_MN_ID, 0, WordBytes, signal) /\ UNCHANGED frameThread
  \/ ct_no_leak_detected /\ UNCHANGED frameThread
  \/ \E n \in MemNodes : peer_op_begin(n) /\ UNCHANGED framePeer
  \/ peer_op_end /\ UNCHANGED framePeer

SpecLeak == Init /\ [][NextLeak]_vars

\* fat pointers of every element size, moved forwards and backwards and compared
NextPtr ==
  \/ \E p \in PtrWords, k \in PtrOffsets, sz \in PtrSizes :
       ptr_plus(p, k, sz) /\ UNCHANGED framePtr
  \/ \E p \in PtrWords, k \in PtrOffsets, sz \in PtrSizes :
       ptr_minus(p, k, sz) /\ UNCHANGED framePtr
  \/ \E p \in PtrWords : ptr_eq_null(p) /\ UNCHANGED framePtr
  \/ \E p, q \in PtrWords : ptr_eq(p, q) /\ UNCHANGED framePtr

SpecPtr == Init /\ [][NextPtr]_vars

\* one thread that allocates blocks of every size class, gives them back and allocates
\* again
NextFreeList ==
  \/ \E n \in FlBytes : fl_allocate(n) /\ UNCHANGED frameFreeList
  \/ \E ptr \in fl_live : fl_deallocate(ptr) /\ UNCHANGED frameFreeList

SpecFreeList == Init /\ [][NextFreeList]_vars

\* one thread of any of the clusters, which sets its policy and asks it for segments
NextPolicy ==
  \/ \E args \in PolConfigs, pol \in AllocPolicies :
       \E t \in PolThreads(args) : pol_new_thread(args, t, pol) /\ UNCHANGED framePolicy
  \/ pol_get_mn_seg /\ UNCHANGED framePolicy

SpecPolicy == Init /\ [][NextPolicy]_vars

\* the threads lock and unlock the nodes
NextLock ==
  \/ \E t \in LkThreads, n \in LkNodes : lk_acquire(t, n) /\ UNCHANGED frameLock
  \/ \E t \in LkThreads : lk_cas(t) /\ UNCHANGED frameLock
  \/ \E t \in LkThreads : lk_load(t) /\ UNCHANGED frameLock
  \/ \E t \in LkThreads : lk_test(t) /\ UNCHANGED frameLock
  \/ \E t \in LkThreads : lk_release(t) /\ UNCHANGED frameLock

SpecLock == Init /\ [][NextLock]_vars

\* the same, where a thread that is in acquire or holds a lock keeps running
SpecLockFair ==
  /\ SpecLock
  /\ \A t \in LkThreads :
       WF_vars((lk_cas(t) \/ lk_load(t) \/ lk_test(t) \/ lk_release(t))
                 /\ UNCHANGED frameLock)

\* the threads insert and remove keys, and the list is searched when they are done
NextList ==
  \/ \E t \in LfThreads, key \in LfKeys : lf_insert(t, key) /\ UNCHANGED frameList
  \/ \E t \in LfThreads, key \in LfKeys : lf_remove(t, key) /\ UNCHANGED frameList
  \/ \E t \in LfThreads : lf_load(t) /\ UNCHANGED frameList
  \/ \E t \in LfThreads : lf_find(t) /\ UNCHANGED frameList
  \/ \E t \in LfThreads : lf_cas(t) /\ UNCHANGED frameList
  \/ \E key \in LfKeys : lf_get(key) /\ UNCHANGED frameList

SpecList == Init /\ [][NextList]_vars

\* the perftest program on the compute nodes: every worker thread runs the lambda
NextPerf ==
  \/ \E name \in PfNames : pf_main(name) /\ UNCHANGED framePerf
  \/ \E t \in BarThreads : pf_arrive(t) /\ UNCHANGED framePerf
  \/ \E t \in BarThreads : pf_skip(t) /\ UNCHANGED framePerf
  \/ \E t \in BarThreads : pf_write(t) /\ UNCHANGED framePerf
  \/ \E t \in BarThreads : pf_spin(t) /\ UNCHANGED framePerf
  \/ \E t \in BarThreads : pf_ops(t) /\ UNCHANGED framePerf

SpecPerf == Init /\ [][NextPerf]_vars

\* every worker is a std::thread of its own: one that can take a step takes it
SpecPerfFair ==
  SpecPerf /\ \A t \in BarThreads :
    WF_vars((pf_arrive(t) \/ pf_skip(t) \/ pf_write(t) \/ pf_spin(t) \/ pf_ops(t))
            /\ UNCHANGED framePerf)
-----------------------------------------------------------------------------
(* Ring slot allocator: claims *)

RcBusy == {i \in Slots : counter_assignments[i] # "AVAILABLE"}

\* the cyclic run of Cardinality(RcBusy) slots that begins at counter_start
RcRun == {(counter_start + k) % counter_num : k \in 0 .. (Cardinality(RcBusy) - 1)}

RcContiguous ==
  /\ RcBusy = RcRun
  /\ (counter_start + Cardinality(RcBusy)) % counter_num = counter_end

\* a step returns slots to AVAILABLE only as a prefix of the run: with slot i, every
\* slot from the old counter_start up to i
RcFifoStep ==
  \A i \in Slots :
    (counter_assignments[i] # "AVAILABLE" /\ counter_assignments'[i] = "AVAILABLE")
      => \A k \in 0 .. ((i - counter_start) % counter_num) :
           counter_assignments'[(counter_start + k) % counter_num] = "AVAILABLE"

\* C4: in every reachable state the slots that are not AVAILABLE are exactly the cyclic
\* run that begins at counter_start and ends just before counter_end, and every step
\* returns slots to AVAILABLE from the oldest end of that run only.
C4_ContiguousRunFifo == [] RcContiguous /\ [][RcFifoStep]_vars

\* C4 witness: the run wraps around the end of the ring and holds a released slot that
\* waits behind an older one
C4_Witness ==
  /\ counter_end < counter_start
  /\ \E i \in Slots : counter_assignments[i] = "TO_BE_FREED"

\* C5: a slot that is not (or no longer) in the trimmed acquisition order, that is, a
\* released slot all of whose predecessors have been released too, is AVAILABLE and
\* lies outside the run that starts at counter_start: it is never left TO_BE_FREED.
C5_ReleasedNotStranded ==
  \A i \in Slots :
    (i \notin {rc_order[k].idx : k \in DOMAIN rc_order})
      => (counter_assignments[i] = "AVAILABLE" /\ i \notin RcRun)

\* C5 witness: a release has just reclaimed a slot that had been released earlier and
\* was waiting for its predecessor, and nothing is left in the run
C5_Witness == rc_freed >= 2 /\ rc_order = <<>> /\ counter_start = counter_end

-----------------------------------------------------------------------------
(* Ring buffer allocator: claims *)

\* C1: no two chunks that are in use at the same time (acquired and not yet released)
\* share a byte.
C1_NoOverlap == RbDisjoint


\* C32: an acquire that returns nullptr leaves the ring as it was: ring_buf_start,
\* ring_buf_end and the map of recorded chunks are the same after the call as before.
C32_FailedAcquireChangesNothing ==
  [][fatal' = "staging buf is not enough" =>
       UNCHANGED <<ring_buf_start, ring_buf_end, ring_buf_allocations>>]_vars

\* C33: when no chunk is in use, acquire returns a chunk for every request whose
\* aligned size is at most the ring's capacity, wherever the cursors are.
C33_EmptyRingServesEveryRequest ==
  [][rb_held = <<>> => fatal' # "staging buf is not enough"]_vars
-----------------------------------------------------------------------------
(* Barrier: claims *)

\* C2: whenever a thread has returned from its w-th call of arrive_control_barrier,
\* at least BarrierThreads fetch-and-adds of wave w have taken place.
C2_ReturnAfterAllArrived ==
  \A t \in BarThreads : \A w \in 1 .. bar_done[t] : bar_arrived[w] >= BarrierThreads

\* C2 witness: a spinning thread (not the last arrival) has returned from a wave
C2_Witness ==
  \E t \in BarThreads :
    /\ bar_done[t] >= 1
    /\ ~ BarrierIsLast(bar_was[t], BarrierThreads)
    /\ bar_pc[t] = "idle"
    /\ bar_calls[t] = bar_done[t]

\* C3: with exactly BarrierThreads threads calling the barrier repeatedly, a thread
\* that has returned from call i+1 implies every thread has returned from call i.
C3_NoOvertaking ==
  \A t, u \in BarThreads : bar_done[t] <= bar_done[u] + 1

\* C3 witness: one thread has returned from its second call while another thread
\* has returned from its first call only
C3_Witness ==
  \E t, u \in BarThreads : bar_done[t] = 2 /\ bar_done[u] = 1


\* C26: in each wave, arrive_control_barrier returns true to the thread that arrived
\* last and false to every other thread.
C26_TrueToLastArrivalOnly ==
  \A t \in BarThreads :
    (bar_pc[t] = "idle" /\ bar_done[t] >= 1) =>
      (bar_ret[t] = "true" <=> BarrierIsLast(bar_was[t], BarrierThreads))

\* what the code does: every call that returns returns true
BarReturnsTrueToAll ==
  \A t \in BarThreads : bar_done[t] >= 1 => bar_ret[t] = "true"
-----------------------------------------------------------------------------
(* Bump allocator: claims *)

\* C9 as stated: after a successful allocation of size S, allocated_ of the segment
\* that holds the returned block is greater than it was before the call, by at least S.
C9_AllocatedGrowsBySize ==
  al_last.op = "allocate" =>
    (al_last.after > al_last.before /\ al_last.after >= al_last.before + al_last.size)

\* C9 amended: the same, for an allocation that try_allocate_global serves (one that
\* is not served from the thread's free lists).
C9_GlobalAllocatedGrowsBySize ==
  (al_last.op = "allocate" /\ al_last.path = "global") =>
    (al_last.after > al_last.before /\ al_last.after >= al_last.before + al_last.size)

\* C9 witness: an allocation served by try_allocate_global has returned while other
\* threads were adding to the same segment
C9_Witness ==
  /\ al_last.op = "allocate" /\ al_last.path = "global"
  /\ al_last.after > al_last.before + al_last.size


\* the offset in its segment of the block that starts at address base
OffsetInSeg(base) == base - get_seg_start(SegOf(base)[1], SegOf(base)[2])

\* C10 as stated: in every reachable state allocated_ <= size_ for every segment, and
\* no step decreases allocated_ of any segment.
C10_AllocatedBoundedAndMonotone ==
  /\ [](\A s \in Segs : allocated_[s] <= seg_size_)
  /\ [][\A s \in Segs : allocated_'[s] >= allocated_[s]]_vars

\* C10 amended: no step decreases allocated_ of any segment, and every block the
\* allocator has handed out lies, header included, between the ControlBlock and the
\* end of its segment; allocated_ itself may pass size_, because a fetch-and-add whose
\* block does not fit is not taken back.
C10_MonotoneAndBlocksInside ==
  /\ [](\A b \in al_live :
          /\ OffsetInSeg(b[1] - HEADER_SIZE) >= ControlBlockSize
          /\ OffsetInSeg(b[1] - HEADER_SIZE) + header_size_[b[1] - HEADER_SIZE] <= seg_size_)
  /\ [][\A s \in Segs : allocated_'[s] >= allocated_[s]]_vars

\* C10 witness: allocated_ of a segment has passed size_ while a thread holds a block
\* of that segment
C10_Witness ==
  \E s \in Segs :
    /\ allocated_[s] > seg_size_
    /\ \E b \in al_live : SegOf(b[1] - HEADER_SIZE) = s

\* the bytes of the block, header included, that allocate returned as ptr
BlockBytes(ptr) ==
  (ptr - HEADER_SIZE) .. (ptr - HEADER_SIZE + header_size_[ptr - HEADER_SIZE] - 1)

-----------------------------------------------------------------------------
(* Allocator saturation: claims *)

\* try_allocate_global is in its loop and no segment can end it
SatStuck == sat_pc = "pick" /\ SatHintsFull(sat_size)

\* the blocks of sat_bytes bytes of payload that the segments of the scenario hold
SatCapacity ==
  SatArgs.SEGS_PER_MN
    * ((2 ^ SatArgs.SEG_SIZE - ControlBlockSize) \div compute_size(1, sat_bytes))

\* C11 as stated: with one memory node, seg_size 2^20, two segments and GLOBAL-RR, the
\* allocations of 1 KiB have succeeded (2 * 2^20 - 2 * 64) / 1024 times when the next
\* one cannot succeed.
C11_SucceedsUntilBytesOver1024 ==
  (sat_policy_ = "GLOBAL-RR" /\ SatStuck) =>
    sat_given = (2 * 2 ^ 20 - 2 * 64) \div 1024

\* C11 amended: under GLOBAL-RR the allocations succeed once per block of the size
\* class of the request, header included, that fits a segment behind its ControlBlock,
\* no more, and exactly that often when the next one cannot succeed; for 1 KiB of
\* payload the block is 2048 bytes and that is 2 * 511 = 1022 times.
C11_SucceedsOncePerBlock ==
  sat_policy_ = "GLOBAL-RR" =>
    /\ sat_given <= SatCapacity
    /\ SatStuck => sat_given = SatCapacity
    /\ (SatStuck /\ sat_bytes = 1024) => sat_given = 1022

\* C11 witness: the thread has been given 1022 blocks of 1 KiB of payload and is in
\* the loop of the next allocate with both segments full
C11_Witness ==
  sat_policy_ = "GLOBAL-RR" /\ SatStuck /\ sat_bytes = 1024 /\ sat_given = 1022

\* C12 as stated: when every segment the policy can select is too full for the request,
\* the allocate call ends the process with the fatal error "Out of memory".
C12_FullAllocateAborts == SatStuck ~> (fatal = "Out of memory")
-----------------------------------------------------------------------------
(* Shutdown: claims *)

SdAllDropped == \A t \in SdThreads(sd_args) : sd_thread[t] = "dropped"

\* C13 as stated: a ~ComputeThread does exactly one fetch-and-add of 1 on control_flag_ of
\* segment 0 of every memory node of FIRST_MN_ID .. LAST_MN_ID, and once every compute
\* thread is dropped control_flag_ of every memory node is the number of compute threads.
C13_DropSignalsEveryMemoryNode ==
  /\ sd_last.dropped =>
       /\ sd_last.fatal = "none"
       /\ \A m \in SdMemNodes(sd_args) : sd_last.sent[m] = 1
  /\ SdAllDropped =>
       \A m \in SdMemNodes(sd_args) : sd_control_flag_[m] = total_threads_(sd_args)

C15_DestructorsReturn ==
  \A m \in SdNodes :
    []((m \in SdMemNodes(sd_args) /\ SdAllDropped /\ sd_mn[m] = "waiting")
         => <>(m \in SdMemNodes(sd_args) /\ sd_mn[m] = "down"))

\* the same where the memory node ids start at 0
SdDestructorsReturnFromZero ==
  \A m \in SdNodes :
    []((sd_args.FIRST_MN_ID = 0 /\ m \in SdMemNodes(sd_args) /\ SdAllDropped
          /\ sd_mn[m] = "waiting")
         => <>(m \in SdMemNodes(sd_args) /\ sd_mn[m] = "down"))
-----------------------------------------------------------------------------
(* Listener: claims *)

\* the connection count the listener is to wait for, as the specification gives it
LsExpected ==
  ((ls_args.LAST_CN_ID - ls_args.FIRST_CN_ID + 1)
     - (IF ls_args.NODE_ID \in LsComputeNodes(ls_args) THEN 1 ELSE 0)) * ls_args.QP_LANES

\* the connections of conns_ that compute node c made
LsAcceptedFrom(c) == Cardinality({i \in 1 .. Len(conns_) : conns_[i] = c})

\* C16: the listener never accepts more than the expected count of connect requests,
\* its loop has returned only with exactly that many accepted, qp_lanes from every
\* compute node other than the memory node itself; remaining_conns_ is the expected
\* count less the accepted, so that the loop ends at its first test with that many.
C16_ListenerReturnsAtExpected ==
  /\ Len(conns_) <= LsExpected
  /\ ls_state = "returned" =>
       /\ Len(conns_) = LsExpected
       /\ \A c \in LsComputeNodes(ls_args) \ {ls_args.NODE_ID} :
            LsAcceptedFrom(c) = ls_args.QP_LANES
  /\ remaining_conns_ = LsExpected - Len(conns_)

\* C16 witness: the loop has returned after accepting the two lanes of each of two
\* compute nodes
C16_Witness ==
  /\ ls_state = "returned"
  /\ Len(conns_) = 4
  /\ ls_args.QP_LANES = 2

\* C17 as stated: after the listener has handled a connect request whose private data
\* is its own node id, the process goes on, and conns_ and remaining_conns_ are as
\* they were before the request.
C17_SelfConnectRejected ==
  (ls_last.event = "CONNECT_REQUEST" /\ ls_last.machine_id = ls_args.NODE_ID) =>
    /\ fatal = "none"
    /\ Len(conns_) = ls_last.conns
    /\ remaining_conns_ = ls_last.remaining
-----------------------------------------------------------------------------
(* Lane: claims *)

\* C19 as stated: the start of an operation on a lane ends the process exactly when it
\* would raise the lane's counter above kMaxWr; it adds one to the counter, and a
\* completion takes one off.
C19_AbortsIffAboveMaxWr ==
  /\ ln_last.op = "Lane" =>
       /\ fatal # "none" <=> ln_last.before + 1 > kMaxWr
       /\ ln_op_counters[LnLane] = ln_last.before + 1
  /\ ln_last.op = "~Lane" => ln_op_counters[LnLane] = ln_last.before - 1

\* what the code does: the process ends when the counter reaches kMaxWr
LnAbortsAtMaxWr ==
  /\ ln_last.op = "Lane" =>
       /\ fatal # "none" <=> ln_last.before + 1 >= kMaxWr
       /\ ln_op_counters[LnLane] = ln_last.before + 1
  /\ ln_last.op = "~Lane" => ln_op_counters[LnLane] = ln_last.before - 1
-----------------------------------------------------------------------------
(* ReadAsync: claims *)

\* the completion counter and the staging chunk of coroutine c are reserved
AsReserved(c) ==
  /\ op_counter_assignments[as_ops[c].counter] = "IN_USE"
  /\ as_ops[c].staging_buf \in DOMAIN staging_buf_allocations_

\* C20 as stated: an operation keeps its completion slot and its staging chunk reserved
\* until it has completed and is dropped, and so the start of an operation while
\* CN_OPS_PER_THREAD earlier ones of the thread are uncompleted ends the process.
C20_SlotAndChunkReservedUntilDrop ==
  /\ \A c \in AsCoros : as_ops[c].state # "none" => AsReserved(c)
  /\ (as_last.op = "ReadAsync" /\ as_last.uncompleted >= CN_OPS_PER_THREAD)
       => fatal # "none"

\* what the code does: no counter and no chunk stays reserved, the operations in flight
\* share them, and no start ends the process for want of a counter
AsNothingReserved ==
  /\ \A i \in DOMAIN op_counter_assignments : op_counter_assignments[i] # "IN_USE"
  /\ staging_buf_allocations_ = EmptyMap
  /\ fatal \notin {"op_counter is not available", "staging buf is not enough"}

\* more operations are in flight than the thread has counters, two of them on one
\* counter and one staging chunk
AsSharedCounter ==
  /\ Cardinality(AsUncompleted) > CN_OPS_PER_THREAD
  /\ \E c, d \in AsUncompleted :
       /\ c # d
       /\ as_ops[c].counter = as_ops[d].counter
       /\ as_ops[c].staging_buf = as_ops[d].staging_buf

\* C21: with many asynchronous reads of one thread outstanding, a read that reports
\* ready has had its own work request completed, and its value is what that request
\* fetched.
C21_ReadyAfterOwnCompletion ==
  \A c \in AsCoros :
    as_ops[c].state = "done" =>
      /\ as_ops[c].wr_done
      /\ as_ops[c].value = as_ops[c].fetched

\* the same for a thread that never has more reads outstanding than it has completion
\* counters and staging chunks of its own
AsWithinCounters ==
  as_last.uncompleted < CN_OPS_PER_THREAD

\* C22 as stated: PollAsync returns true exactly when the completion counter is zero
\* at the time the call returns.
C22_TrueIffDrainedAtReturn ==
  as_poll.called => (as_poll.ret <=> as_poll.after = 0)

\* C22 amended: PollAsync polls the completion queue at most once, and returns true
\* exactly when the completion counter was zero already when the call was made; the
\* counter is zero when it returns true.
C22_TrueIffDrainedAtCall ==
  as_poll.called =>
    /\ as_poll.ret <=> as_poll.before = 0
    /\ as_poll.ret => as_poll.after = 0

\* a call took the last completion of its counter and returned false, and a call
\* returned true
C22_Witness ==
  /\ as_poll.called /\ as_poll.ret
  /\ \E c \in AsCoros : as_ops[c].state = "done" /\ as_ops[c].wr_done

C22_WitnessDrainingCall ==
  as_poll.called /\ ~as_poll.ret /\ as_poll.before = 1 /\ as_poll.after = 0

\* C25: resume() on an AsyncResult whose coroutine has returned has no effect, so the
\* process goes on after it.
C25_ResumeOfDoneHasNoEffect ==
  fatal # "resume of a coroutine that is done"

\* C34: a completion that is polled finds its completion counter at 1 or more, so that
\* every completion counter holds 0 or 1 and the assertion "Broken synchronization"
\* never fails, whatever the order of the posts and the polls.
C34_CountersStayZeroOrOne ==
  /\ fatal # "Broken synchronization"
  /\ \A k \in DOMAIN op_counters_ : op_counters_[k] \in {0, 1}
-----------------------------------------------------------------------------
(* Sequenced groups: claims *)

SeqNames == {"ReadSeq", "WriteSeq"}

\* C23: a sequenced call with signal = true posts the group and returns, after the
\* chain has completed, the values the group's reads into staging chunks fetched, in
\* issue order and nothing else.
C23_SignalReturnsStagedReads ==
  (ct_last.op \in SeqNames /\ ct_last.signal) =>
    /\ ct_last.complete
    /\ ct_last.result = ct_last.fetched

\* what holds of the code where no zero-copy operation joins a group (SpecThread): a
\* group that was posted returns what its reads fetched
SeqPostedReturnsStagedReads ==
  ct_last.complete => ct_last.result = ct_last.fetched

\* a group was posted and returned something else than what its staged reads fetched
SeqResultMisaligned ==
  ct_last.complete /\ ct_last.result # ct_last.fetched

\* the open group of the thread holds CN_WRS_PER_SEQ work requests and the thread has
\* room for another group
SeqOpenGroupFull ==
  /\ fatal = "none"
  /\ HasOpenGroup(CtRes)
  /\ Len(seq_send_wrs[LastSeqIdx(CtRes)].send_wrs) >= CN_WRS_PER_SEQ
  /\ Cardinality(DOMAIN seq_send_wrs) < CN_OPS_PER_THREAD

\* C24: a sequenced call joins the open group while it holds fewer than CN_WRS_PER_SEQ
\* work requests, and a call that finds it holding CN_WRS_PER_SEQ is placed in a fresh
\* group: it does not end the process for want of room in the group.
C24_FullGroupGetsFreshGroup ==
  [][SeqOpenGroupFull => fatal' # "seq_send_wrs[] is full"]_vars
-----------------------------------------------------------------------------
(* Root pointer: claims *)

\* C27: with the first compute node's main thread calling set_root(p) before it starts
\* its workers, a thread that is back from its first arrive_control_barrier finds the
\* root written, and every get_root() made there returns p.
C27_RootReadAfterBarrierIsPublished ==
  \A t \in BarThreads :
    /\ bar_done[t] >= 1 => root_ = RootPtr
    /\ rt_root[t] \in {NullPtr, RootPtr}

\* C27 witness: every thread, the ones of the other compute nodes among them, has read
\* the root after the barrier
C27_Witness ==
  \A t \in BarThreads : rt_root[t] = RootPtr /\ bar_done[t] >= 1
-----------------------------------------------------------------------------
(* rdma_ptr: claims *)

\* the 48-bit address a, as limbs, moved by the integer d: (a + d) mod 2^48
RECURSIVE LimbsPlusInt(_, _, _)
LimbsPlusInt(a, d, i) ==
  IF i > Len(a) THEN <<>>
  ELSE <<(a[i] + d) % LimbBase>> \o LimbsPlusInt(a, (a[i] + d - ((a[i] + d) % LimbBase)) \div LimbBase, i + 1)

AddressOf(raw_) == SubSeq(raw_, 1, AddressLimbs)

IdOf(raw_) == SubSeq(raw_, AddressLimbs + 1, WordLimbs)

\* C29: (p + k).id = p.id and (p + k).address = (p.address + k * sizeof(T)) mod 2^48
\* for offsets k of either sign, the same for p - k with -k, and p.raw = (p.id << 48) |
\* p.address.
C29_PointerArithmetic ==
  /\ ptr_last.op \in {"+", "-"} =>
       LET d == IF ptr_last.op = "+" THEN ptr_last.k * ptr_last.size
                ELSE 0 - (ptr_last.k * ptr_last.size)
       IN /\ ptr_id(ptr_last.ret) = ptr_id(ptr_last.p)
          /\ IdOf(ptr_last.ret) = IdOf(ptr_last.p)
          /\ AddressOf(ptr_address(ptr_last.ret))
               = LimbsPlusInt(AddressOf(ptr_last.p), d, 1)
          /\ IdOf(ptr_address(ptr_last.ret)) = IdOf(ZeroWord)
  /\ \A w \in {ptr_last.p, ptr_last.ret} :
       w = WordOr(ShiftLeftAddressBits(ptr_id(w)), ptr_address(w))

\* C29 witness: a negative offset took the address below zero, around 2^48, and left
\* the id as it was
C29_Witness ==
  /\ ptr_last.op = "+" /\ ptr_last.k < 0
  /\ AddressOf(ptr_last.p) = AddressOf(ZeroWord)
  /\ IdOf(ptr_last.p) # IdOf(ZeroWord)
  /\ AddressOf(ptr_last.ret)[AddressLimbs] = LimbBase - 1

\* C30: p == nullptr exactly when the raw word of p is zero, the id bits included.
C30_NullIffRawZero ==
  ptr_last.op = "== nullptr" => (ptr_last.eq <=> ptr_last.p = ZeroWord)

\* what the code compares with nullptr: the address bits
PtrNullIffAddressZero ==
  ptr_last.op = "== nullptr" => (ptr_last.eq <=> AddressOf(ptr_last.p) = AddressOf(ZeroWord))

\* equality of two fat pointers is equality of their raw words
PtrEqIffRawEqual ==
  ptr_last.op = "==" => (ptr_last.eq <=> \A i \in 1 .. WordLimbs : ptr_last.p[i] = ptr_last.q[i])
-----------------------------------------------------------------------------
(* register_thread: claims *)

RegReturned == {t \in RegCallers : reg_pc[t] = "returned"}

RegFetched == {t \in RegCallers : reg_pc[t] = "fetched"}

\* C18: the calls of register_thread that have returned hold pairwise distinct ids, all
\* below cn_threads, which are 0 .. k-1 when no call is between threads_++ and its
\* return; their slices of 2^cn_thread_bufsz bytes lie in seg_ and are pairwise
\* disjoint; and the process has been aborted exactly when a call that took an id of
\* cn_threads or more has tested it.
C18_RegisterDistinctSlices ==
  /\ \A a, b \in RegReturned : a # b => reg_id[a] # reg_id[b]
  /\ \A a \in RegReturned : reg_id[a] < CN_THREADS
  /\ RegFetched = {} => {reg_id[t] : t \in RegReturned} = 0 .. (Cardinality(RegReturned) - 1)
  /\ \A a \in RegReturned :
       /\ reg_res[a] >= seg_raw
       /\ reg_res[a] + 2 ^ CN_THREAD_BUFSZ <= seg_raw + seg_capacity
  /\ \A a, b \in RegReturned :
       a # b => (reg_res[a] + 2 ^ CN_THREAD_BUFSZ <= reg_res[b]
                   \/ reg_res[b] + 2 ^ CN_THREAD_BUFSZ <= reg_res[a])
  /\ fatal # "none" => \E t \in RegFetched : reg_id[t] >= CN_THREADS
  /\ (fatal = "none" /\ threads_ > CN_THREADS) =>
       \E t \in RegFetched : reg_id[t] >= CN_THREADS

\* C18 witness: cn_threads calls have returned, in an order that is not the order of
\* their ids, and one more call has aborted the process
C18_Witness ==
  /\ Cardinality(RegReturned) = CN_THREADS
  /\ \E a, b \in RegReturned : a < b /\ reg_id[a] > reg_id[b]
  /\ fatal # "none"
-----------------------------------------------------------------------------
(* One-sided operations: claims *)

\* C6: CompareAndSwap<T>(p, e, s) returns e if and only if the remote 8-byte word
\* equaled e and was replaced by s, for every T of at most 8 bytes.
C6_ReturnsExpectedIffSwapped ==
  ct_last.op = "CompareAndSwap" => ((ct_last.ret = ct_last.expected) <=> ct_last.swapped)

\* C7: a Read<T>(p) that follows a returned Write(p, v) of the same thread, with no
\* write to those bytes in between, returns v, whether p is on the thread's own node
\* or on a remote one.
C7_ReadReturnsWritten ==
  (/\ ct_last.op = "Read"
   /\ wr_pending.valid
   /\ wr_pending.n = ct_last.n /\ wr_pending.off = ct_last.off
   /\ Len(wr_pending.val) = Len(ct_last.ret))
    => ct_last.ret = wr_pending.val

\* C7 witness: such a Read has returned a non-zero value from the remote node and the
\* thread's own node holds a non-zero value too
C7_Witness ==
  /\ ct_last.op = "Read"
  /\ wr_pending.valid /\ wr_pending.n # node_id
  /\ wr_pending.n = ct_last.n /\ wr_pending.off = ct_last.off
  /\ Len(wr_pending.val) = Len(ct_last.ret)
  /\ ct_last.ret[1] # 0
  /\ mem[node_id][0] # 0

\* C8: when a thread that has collected every group it opened and given back every
\* buffer it took is dropped, none of the leak assertions of its destructor fires.
C8_DropFindsNoLeak ==
  (ct_state = "dropped" /\ ct_last.complete) => fatal \notin LeakMessages

\* C28: no_leak_detected() called by a thread that has nothing of its own outstanding
\* returns true, whatever the other threads of the compute node are doing.
C28_NoLeakWhateverOthersDo ==
  (ct_last.op = "no_leak_detected" /\ ct_last.complete) => fatal = "none"

\* the same call while no other thread of the compute node is inside an operation
NoLeakWhileOthersIdle ==
  (ct_last.op = "no_leak_detected" /\ ct_last.complete /\ peer_lane = NullOpt
     /\ fatal \in LeakMessages)
    => FALSE
-----------------------------------------------------------------------------
(* Free lists: claims *)

\* the blocks the thread's free lists hold
FlReclaimed ==
  UNION {Range(fl_freelists_[c]) : c \in DOMAIN fl_freelists_}
    \cup {fl_free_blocks_[i][2] : i \in DOMAIN fl_free_blocks_}

\* the free lists can satisfy a request of size bytes: a block of the size class for
\* small and medium, a large chunk of sufficient capacity for large
FlSatisfiable(size) ==
  IF size > ALLOC_MED_THRESH
    THEN \E i \in DOMAIN fl_free_blocks_ : fl_free_blocks_[i][1] >= size
    ELSE size \in DOMAIN fl_freelists_ /\ fl_freelists_[size] # <<>>

\* the first large chunk of the free blocks that can hold size bytes
FlFirstLarge(size) ==
  LET i == CHOOSE i \in DOMAIN fl_free_blocks_ :
             /\ fl_free_blocks_[i][1] >= size
             /\ \A j \in 1 .. (i - 1) : fl_free_blocks_[j][1] < size
  IN fl_free_blocks_[i][2]

\* C31: an allocate that the thread's free lists can satisfy (a block of the same
\* size class for small and medium, the first large chunk with sufficient capacity
\* for large) returns a block that was reclaimed before, and no fetch-and-add is made
\* on the segment.
C31_FreeListPreferred ==
  [][(fl_calls' = fl_calls + 1 /\ FlSatisfiable(fl_last'.size)) =>
       /\ fl_last'.path = "local"
       /\ (fl_last'.ret - HEADER_SIZE) \in FlReclaimed
       /\ fl_last'.size > ALLOC_MED_THRESH =>
            fl_last'.ret - HEADER_SIZE = FlFirstLarge(fl_last'.size)
       /\ fl_allocated_' = fl_allocated_]_vars

\* C31 witness: the last of the allocate calls was a large request, served by a chunk
\* of the free blocks that is larger than the request
C31_Witness ==
  /\ fl_last.op = "allocate" /\ fl_last.path = "local"
  /\ fl_last.size > ALLOC_MED_THRESH
  /\ fl_header_size_[fl_last.ret - HEADER_SIZE] > fl_last.size
  /\ fl_calls = MaxFlCalls
-----------------------------------------------------------------------------
(* MnAllocPolicy: claims *)

\* the pair ms names a segment of the cluster args
PolExists(args, ms) ==
  /\ args.FIRST_MN_ID <= ms[1] /\ ms[1] <= args.LAST_MN_ID
  /\ ms[2] < args.SEGS_PER_MN

\* C36: every (mn_id, seg_id) the allocation policy produces names an existing segment,
\* first_mn_id <= mn_id <= last_mn_id and seg_id < segs_per_mn, for every policy and
\* every contiguous range of memory-node ids, also one that does not start at 0.
C36_PolicyNamesExistingSegment ==
  pol_ret # <<>> => PolExists(pol_args, pol_ret)

\* the same for the clusters whose memory-node ids start at 0
PolExistsWhenIdsStartAtZero ==
  (pol_ret # <<>> /\ pol_args.FIRST_MN_ID = 0) => PolExists(pol_args, pol_ret)

\* a policy of a cluster whose memory-node ids start at 1 has named memory node 0
PolNamedNodeZero ==
  pol_ret # <<>> /\ pol_args.FIRST_MN_ID = 1 /\ pol_ret[1] = 0
-----------------------------------------------------------------------------
(* LazyListSet node lock: claims *)

\* C37: acquire returns to a caller only after the caller's own compare-and-swap
\* changed lock_ from 0 to 1, so that at most one thread is between acquire and
\* release on a node at any time.
C37_MutualExclusion ==
  /\ \A t \in LkThreads : lk_pc[t] = "held" => lk_own[t]
  /\ \A t, u \in LkThreads :
       (t # u /\ lk_pc[t] = "held" /\ lk_pc[u] = "held") => lk_node[t] # lk_node[u]

\* two threads are between acquire and release on one node
LkTwoHolders ==
  \E t, u \in LkThreads :
    t # u /\ lk_pc[t] = "held" /\ lk_pc[u] = "held" /\ lk_node[t] = lk_node[u]

\* what the code does: acquire returns to a caller exactly when the caller's own
\* compare-and-swap failed
LkHeldIffCasFailed ==
  \A t \in LkThreads :
    /\ lk_pc[t] = "held" => ~lk_own[t]
    /\ lk_pc[t] \in {"spin", "loaded"} => lk_own[t]

\* C38: when lock_ of a node is 0 and no other thread touches the node, acquire
\* terminates and leaves lock_ equal to 1.
C38_AcquireAloneTerminates ==
  \A t \in LkThreads, n \in LkNodes :
    []((/\ lk_pc[t] = "cas" /\ lk_node[t] = n /\ lock_[n] = 0
        /\ [](\A u \in LkThreads \ {t} : lk_node[u] # n))
         => <>(lk_pc[t] = "held" /\ lk_node[t] = n /\ lock_[n] = 1))
-----------------------------------------------------------------------------
(* LockFreeList: claims *)

\* C39: every key whose insert returned true, with no remove of it returning true
\* since, is found by a later get, whatever the interleaving of the inserts and
\* removes on neighbouring nodes.
C39_InsertedKeyIsFound ==
  (lf_last.op = "get" /\ lf_last.present) => lf_last.ret

\* the same as long as no two calls overlap
LfSequentialInsertedKeyIsFound ==
  (lf_last.op = "get" /\ lf_last.present /\ lf_ops <= 1) => lf_last.ret

\* a node that holds a key whose insert returned true is no longer reachable from head
LfInsertLost ==
  \E k \in lf_present : ~LfGet(lf_head, k)
-----------------------------------------------------------------------------
(* perftest: claims *)

PfAllDone == \A t \in BarThreads : pf_pc[t] = "done"

\* C40: for every experiment name the lead thread and the other workers call
\* arrive_control_barrier the same number of times, every wave gets
\* barrier_thread_count arrivals, and every worker thread terminates.
C40_EveryWorkerTerminates ==
  (pf_exp_name # "unborn") ~>
    (PfAllDone /\ \A t \in BarThreads : bar_calls[t] = bar_calls[1])

\* with a name other than the default every worker terminates, after three waves
PfOtherNameTerminates ==
  (pf_exp_name = "other") ~>
    (PfAllDone /\ \A t \in BarThreads : bar_calls[t] = 3)

\* with a name other than the default every wave that began is full or being filled
\* by threads that are on their way to it
PfOtherNameWavesFull ==
  (pf_exp_name = "other" /\ PfAllDone) =>
    \A w \in 1 .. 3 : bar_arrived[w] = BarrierThreads

\* --exp-name perftest: the lead has left the lambda after one arrival, and the others
\* spin in their second call, a wave that has one arrival too few
PfPerftestStuck ==
  /\ pf_exp_name = "perftest"
  /\ pf_pc[1] = "done" /\ bar_calls[1] = 1
  /\ \A t \in BarThreads \ {1} : bar_pc[t] = "spin" /\ bar_calls[t] = 2
  /\ bar_arrived[2] = BarrierThreads - 1
====
